---- MODULE Spec2Model ----
(***************************************************************************)
(* A model of sparx.py: the host inventory (HostManager.hosts), the two    *)
(* persisted files (inventories/remote.py, k0sctl/k0sctl.yaml), the        *)
(* settings file (~/.config/sparx/sparx.json), the connectivity prober     *)
(* threads, the keyboard-focus handlers and the main() life cycle.         *)
(*                                                                         *)
(* Text is modelled as a sequence of one-character strings, so that the    *)
(* regular expressions, int(), str() and zfill() of the source are         *)
(* computed on characters.                                                 *)
(***************************************************************************)
EXTENDS Integers, Sequences, FiniteSets, TLC

(***************************************************************************)
(* Characters                                                              *)
(***************************************************************************)
DigitChars == <<"0", "1", "2", "3", "4", "5", "6", "7", "8", "9">>

LowerChars == <<"a", "b", "c", "d", "e", "f", "g", "h", "i", "j", "k", "l", "m",
                "n", "o", "p", "q", "r", "s", "t", "u", "v", "w", "x", "y", "z">>

UpperChars == <<"A", "B", "C", "D", "E", "F", "G", "H", "I", "J", "K", "L", "M",
                "N", "O", "P", "Q", "R", "S", "T", "U", "V", "W", "X", "Y", "Z">>

Range(f) == {f[i] : i \in DOMAIN f}

\* \d
Digit == Range(DigitChars)

\* [a-zA-Z0-9]
Alnum == Digit \cup Range(LowerChars) \cup Range(UpperChars)

\* [a-zA-Z0-9.-]
HostChar == Alnum \cup {".", "-"}

\* [a-zA-Z0-9-]
LabelChar == Alnum \cup {"-"}

AllIn(s, S) == \A i \in 1..Len(s) : s[i] \in S

\* \d+
IsDigits(s) == Len(s) > 0 /\ AllIn(s, Digit)

Contains(s, c) == \E i \in 1..Len(s) : s[i] = c

SetMax(S) == CHOOSE x \in S : \A y \in S : y <= x

SetMin(S) == CHOOSE x \in S : \A y \in S : x <= y

\* str.lower() on one character
LowerChar(c) ==
    IF \E i \in 1..26 : UpperChars[i] = c
    THEN LowerChars[CHOOSE i \in 1..26 : UpperChars[i] = c]
    ELSE c

\* str.lower()
Lower(s) == [i \in 1..Len(s) |-> LowerChar(s[i])]

DigitVal(c) == (CHOOSE i \in 1..10 : DigitChars[i] = c) - 1

\* int(s) for a string of decimal digits
RECURSIVE StrToInt(_)
StrToInt(s) ==
    IF s = <<>> THEN 0
    ELSE StrToInt(SubSeq(s, 1, Len(s) - 1)) * 10 + DigitVal(s[Len(s)])

\* str(n) for n >= 0
RECURSIVE IntToStr(_)
IntToStr(n) ==
    IF n < 10 THEN <<DigitChars[n + 1]>>
    ELSE IntToStr(n \div 10) \o <<DigitChars[(n % 10) + 1]>>

\* str.zfill(w) for an unsigned string
RECURSIVE Zfill(_, _)
Zfill(s, w) == IF Len(s) >= w THEN s ELSE Zfill(<<"0">> \o s, w)

\* s.split(c)
RECURSIVE Split(_, _)
Split(s, c) ==
    IF ~Contains(s, c) THEN <<s>>
    ELSE LET i == SetMin({k \in 1..Len(s) : s[k] = c})
         IN  <<SubSeq(s, 1, i - 1)>> \o Split(SubSeq(s, i + 1, Len(s)), c)

\* re.split(r'[\[\]]', s)
RECURSIVE SplitBrackets(_)
SplitBrackets(s) ==
    IF ~Contains(s, "[") /\ ~Contains(s, "]") THEN <<s>>
    ELSE LET i == SetMin({k \in 1..Len(s) : s[k] \in {"[", "]"}})
         IN  <<SubSeq(s, 1, i - 1)>> \o SplitBrackets(SubSeq(s, i + 1, Len(s)))

(***************************************************************************)
(* The bracket group  \[(\d+)<sep>(\d+)\]  of the regular expressions.     *)
(* GroupAt(s, i, sep) is the set of <<k, j>> such that the group starts at *)
(* s[i] = "[", has its separator at k and its "]" at j; it has at most one *)
(* element, because digits hold neither the separator nor a bracket.       *)
(***************************************************************************)
GroupAt(s, i, sep) ==
    IF s[i] # "[" THEN {}
    ELSE {kj \in (i + 1..Len(s)) \X (i + 1..Len(s)) :
            /\ kj[1] < kj[2]
            /\ s[kj[1]] = sep
            /\ s[kj[2]] = "]"
            /\ IsDigits(SubSeq(s, i + 1, kj[1] - 1))
            /\ IsDigits(SubSeq(s, kj[1] + 1, kj[2] - 1))}

GroupStarts(s, sep) == {i \in 1..Len(s) : GroupAt(s, i, sep) # {}}

\* re.search(r'(.*)\[(\d+)<sep>(\d+)\](.*)', s).groups(): the first (.*) is
\* greedy, so the group matched is the last one of s.
SearchGroups(s, sep) ==
    LET i  == SetMax(GroupStarts(s, sep))
        kj == CHOOSE x \in GroupAt(s, i, sep) : TRUE
    IN  [prefix |-> SubSeq(s, 1, i - 1),
         start  |-> SubSeq(s, i + 1, kj[1] - 1),
         end    |-> SubSeq(s, kj[1] + 1, kj[2] - 1),
         suffix |-> SubSeq(s, kj[2] + 1, Len(s))]

\* [f(i) for i in range(lo, hi + 1)]
NumberedFrom(lo, hi, prefix, suffix, width) ==
    [x \in 1..(IF hi >= lo THEN hi - lo + 1 ELSE 0) |->
        prefix \o Zfill(IntToStr(lo + x - 1), width) \o suffix]

\* start.startswith('0') and len(start) > 1
DashWidthNoPad(start) == 0

DashWidth(start) == IF start[1] = "0" /\ Len(start) > 1 THEN Len(start) ELSE 0

\* width = len(start)
ColonWidthNoPad(start) == 0

ColonWidth(start) == Len(start)

expand_host_pattern(pattern) ==
    IF ~Contains(pattern, "[") \/ ~Contains(pattern, "]") THEN <<pattern>>
    ELSE IF GroupStarts(pattern, "-") # {}
    THEN LET g == SearchGroups(pattern, "-")
         IN  NumberedFrom(StrToInt(g.start), StrToInt(g.end), g.prefix, g.suffix,
                          DashWidth(g.start))
    ELSE IF GroupStarts(pattern, ":") # {}
    THEN LET g == SearchGroups(pattern, ":")
         IN  NumberedFrom(StrToInt(g.start), StrToInt(g.end), g.prefix, g.suffix,
                          ColonWidth(g.start))
    ELSE <<pattern>>

(***************************************************************************)
(* HostInput.validate_hostname                                             *)
(***************************************************************************)
\* ^[a-zA-Z0-9.-]*\[(\d+)<sep>(\d+)\][a-zA-Z0-9.-]*$
MatchesPattern(value, sep) ==
    \E i \in GroupStarts(value, sep) :
        \E kj \in GroupAt(value, i, sep) :
            /\ AllIn(SubSeq(value, 1, i - 1), HostChar)
            /\ AllIn(SubSeq(value, kj[2] + 1, Len(value)), HostChar)

\* the "additional check": ^.*\[\d+-\d+\].*$, then the text between the first
\* two brackets split at '-' into two int()s with start <= end
AdditionalCheck(value) ==
    /\ GroupStarts(value, "-") # {}
    /\ LET parts == SplitBrackets(value)
       IN  /\ Len(parts) >= 3
           /\ LET range_parts == Split(parts[2], "-")
              IN  /\ Len(range_parts) = 2
                  /\ IsDigits(range_parts[1])
                  /\ IsDigits(range_parts[2])
                  /\ StrToInt(range_parts[1]) <= StrToInt(range_parts[2])

\* ^(\d{1,3}\.){3}\d{1,3}$
IsIPShape(value) ==
    LET parts == Split(value, ".")
    IN  /\ Len(parts) = 4
        /\ \A i \in 1..4 : IsDigits(parts[i]) /\ Len(parts[i]) <= 3

MaxOctet == 255

MaxLabelMiddle == 61

\* [a-zA-Z0-9]([a-zA-Z0-9-]{0,61}[a-zA-Z0-9])?
IsLabel(l) ==
    /\ Len(l) >= 1
    /\ l[1] \in Alnum
    /\ Len(l) > 1 => /\ l[Len(l)] \in Alnum
                     /\ Len(l) - 2 <= MaxLabelMiddle
                     /\ AllIn(SubSeq(l, 2, Len(l) - 1), LabelChar)

IsHostnameShape(value) ==
    LET labels == Split(value, ".")
    IN  \A i \in 1..Len(labels) : IsLabel(labels[i])

validate_hostname(value) ==
    IF value = <<>> THEN FALSE
    ELSE IF /\ Contains(value, "[")
            /\ Contains(value, "]")
            /\ \/ MatchesPattern(value, "-")
               \/ MatchesPattern(value, ":")
               \/ AdditionalCheck(value)
    THEN TRUE
    ELSE IF IsIPShape(value)
    THEN \A i \in 1..4 : StrToInt(Split(value, ".")[i]) <= MaxOctet
    ELSE IsHostnameShape(value)

(***************************************************************************)
(* The inputs of the pure functions: every text of at most MaxRawLen       *)
(* characters over RawAlphabet, every range pattern built from the         *)
(* prefixes, bounds and suffixes below, and the texts of the test suite    *)
(* (test_host_validation, test_host_pattern_expansion).                    *)
(***************************************************************************)
MaxRawLen == 4

MaxDigits == 2

SeqsUpTo(S, n) == UNION {[1..k -> S] : k \in 0..n}

RawAlphabet == {"a", "1", "[", "]", "-", ":", "."}

RawTexts == SeqsUpTo(RawAlphabet, MaxRawLen)

BoundDigits == {"0", "1", "9"}

BoundTexts == SeqsUpTo(BoundDigits, MaxDigits) \ {<<>>}

Prefixes == {<<>>, <<"h">>, <<"h", "-">>}

Suffixes == {<<>>, <<".", "c">>}

RangeTexts ==
    {p \o <<"[">> \o m \o sep \o n \o <<"]">> \o s :
        p \in Prefixes, m \in BoundTexts, sep \in {<<"-">>, <<":">>},
        n \in BoundTexts, s \in Suffixes}

TestTexts ==
    {<<"h", "o", "s", "t", "[", "1", "-", "3", "]", ".", "c", "o", "m">>,
     <<"h", "o", "s", "t", "[", "0", "1", "-", "0", "3", "]", ".", "c", "o", "m">>,
     <<"e", "x", "a", "m", "p", "l", "e", ".", "c", "o", "m">>,
     <<"s", "u", "b", ".", "e", "x", "a", "m", "p", "l", "e", ".", "c", "o", "m">>,
     <<"1", "9", "2", ".", "1", "6", "8", ".", "1", ".", "1">>,
     <<"2", "5", "6", ".", "2", "5", "6", ".", "2", "5", "6", ".", "2", "5", "6">>,
     <<"s", "e", "r", "v", "e", "r", "[", "1", "-", "a", "]", ".", "e", "x", "a", "m",
       "p", "l", "e", ".", "c", "o", "m">>,
     <<"i", "n", "v", "a", "l", "i", "d", ".", ".", "c", "o", "m">>,
     <<"s", "e", "r", "v", "e", "r", "[", "0", "1", "-", "1", "0", "]", ".", "e", "x",
       "a", "m", "p", "l", "e", ".", "c", "o", "m">>,
     <<"a", "[", "1", "-", "2", "]", "b", "[", "1", "-", "2", "]">>}

\* a number of four digits in a dotted quad, and a text with two bracket
\* groups of which the second has a letter for a bound
EdgeTexts ==
    {<<"1", "0", "0", "0", ".", "1", ".", "1", ".", "1">>,
     <<"a", "[", "1", "-", "2", "]", "[", "1", "-", "b", "]">>}

Patterns == RawTexts \cup RangeTexts \cup TestTexts \cup EdgeTexts

(***************************************************************************)
(* State of the pure-function specification: the text given, what          *)
(* expand_host_pattern returned for it, what validate_hostname answered,   *)
(* and which of the two have been called.                                  *)
(***************************************************************************)
VARIABLES pattern, expanded, valid, called

pureVars == <<pattern, expanded, valid, called>>

InitPure ==
    /\ pattern \in Patterns
    /\ expanded = <<>>
    /\ valid = FALSE
    /\ called = {}

(***************************************************************************)
(* The program state.                                                      *)
(*   hosts             HostManager.hosts: the Host objects in list order;  *)
(*                     id is the identity of the object (threads hold      *)
(*                     references to Host objects)                         *)
(*   selected_index    HostManager.selected_index, 0-based, None == -1     *)
(*   input_value       HostInput.value                                     *)
(*   username, virtual_ip, auth_pass   HostManager attributes; auth_pass   *)
(*                     is "" while the attribute is missing or empty       *)
(*   app_host_username SparxApp.host_username                              *)
(*   listFile          inventories/remote.py                               *)
(*   cfgFile           k0sctl/k0sctl.yaml                                  *)
(*   settingsFile      ~/.config/sparx/sparx.json                          *)
(*   phase             "off": no process; "running": inside app.run();     *)
(*                     "prompt": main() at its final yes/no question       *)
(*   user_confirmed_continue   SparxApp.user_confirmed_continue            *)
(*   mainConfig        the dict main() loaded before app.run()             *)
(*   loopEnd           how app.run() ended in this process                 *)
(*   deployed          run_cmd("k0sctl apply ...") was invoked             *)
(*   pendingCycles     check_host_connectivity callbacks queued by         *)
(*                     call_later and not yet run                          *)
(*   workers           the _check_connectivity threads                     *)
(*   resolvers         the _resolve_all_hosts threads                      *)
(*   focus             the widget that has the keyboard focus              *)
(*   lastOp            the handler or thread step that ran last and its outcome ("other"  *)
(*                     for the handlers that never write the store)        *)
(***************************************************************************)
VARIABLES hosts, selected_index, input_value,
          username, virtual_ip, auth_pass, app_host_username,
          listFile, cfgFile, settingsFile,
          phase, user_confirmed_continue, mainConfig, loopEnd, deployed,
          pendingCycles, workers, resolvers,
          focus,
          lastOp

storeVars == <<hosts, selected_index, input_value>>

settingVars == <<username, virtual_ip, auth_pass, app_host_username>>

fileVars == <<listFile, cfgFile, settingsFile>>

lifeVars == <<phase, user_confirmed_continue, mainConfig, loopEnd, deployed>>

probeVars == <<pendingCycles, workers, resolvers>>

navVars == <<focus>>

progVars == <<storeVars, settingVars, fileVars, lifeVars, probeVars, navVars, lastOp>>

vars == <<pureVars, progVars>>

None == -1

\* port written for every SSH target
SshPort == 22

\* HostManager.virtual_ip / SparxApp.virtual_ip class default, "192.168.122.200/24"
DefaultVirtualIP == "192.168.122.200/24"

\* os.getlogin()
LoginName == <<"m", "e">>

\* a virtual IP text that holds a double quote
QuotedVirtualIP == "10.0.0.9\"/24"

\* secrets.token_hex(4) results
Tokens == {"0a1b2c3d", "4e5f6a7b"}

\* Host(name=..., ip_address=...): the dataclass defaults for the other fields
Host(id, name, ip_address) ==
    [id |-> id, name |-> name, enabled |-> TRUE, connection_status |-> "unknown",
     role |-> "both", ip_address |-> ip_address]

\* what socket.gethostbyname(name) returns when it succeeds: a dotted quad is
\* returned as it is, a name gets the address written here as "#" + name
DnsAnswer(name) == IF IsIPShape(name) THEN name ELSE <<"#">> \o name

\* the smallest object identity used neither by the list nor by a thread
FreeIds(hs, ws) ==
    (1..(Len(hs) + Len(ws) + 1)) \ ({hs[i].id : i \in 1..Len(hs)} \cup {ws[i].ref : i \in 1..Len(ws)})

RECURSIVE AppendHosts(_, _, _, _)
AppendHosts(hs, ws, names, ips) ==
    IF names = <<>> THEN hs
    ELSE AppendHosts(Append(hs, Host(SetMin(FreeIds(hs, ws)), Head(names), Head(ips))),
                     ws, Tail(names), Tail(ips))

(***************************************************************************)
(* The files                                                               *)
(***************************************************************************)
NoListFile == [exists |-> FALSE, entries |-> <<>>]

\* k0sctl/k0sctl.yaml: lines says which of the two lines that load_k0sctl_config
\* looks for the file holds
NoCfgFile == [exists |-> FALSE, lines |-> {}, targets |-> <<>>, vip |-> "", auth |-> ""]

\* the JSON object of the settings file: the keys it holds and their values
NoSettingsFile == [exists |-> FALSE, keys |-> {}, username |-> <<>>, virtual_ip |-> ""]

ListFileOfAll(hs) ==
    [exists |-> TRUE,
     entries |-> [i \in 1..Len(hs) |-> [text |-> hs[i].name, role |-> hs[i].role]]]

\* f.write(f"    '{host.name}',  # Role: {host.role}\n") for the enabled hosts
ListFileOf(hs) ==
    LET en == SelectSeq(hs, LAMBDA h : h.enabled)
    IN  [exists |-> TRUE,
         entries |-> [i \in 1..Len(en) |-> [text |-> en[i].name, role |-> en[i].role]]]

\* load_hosts: one (username, hostname) per quoted text of the file
ParseEntry(text) ==
    IF Contains(text, "@")
    THEN LET i == SetMin({k \in 1..Len(text) : text[k] = "@"})
         IN  [username |-> SubSeq(text, 1, i - 1), hostname |-> SubSeq(text, i + 1, Len(text))]
    ELSE [username |-> <<>>, hostname |-> text]

LoadedUsernameFromFile(entries, user) ==
    LET at == {i \in 1..Len(entries) : Contains(entries[i].text, "@")}
    IN  IF at = {} THEN user ELSE ParseEntry(entries[SetMin(at)].text).username

RECURSIVE LoadedUsername(_, _)
LoadedUsername(entries, user) ==
    IF entries = <<>> THEN user
    ELSE LET e == ParseEntry(Head(entries).text)
         IN  LoadedUsername(Tail(entries),
                            IF Contains(Head(entries).text, "@") /\ user = <<>>
                            THEN e.username ELSE user)

LoadedHosts(entries) ==
    [i \in 1..Len(entries) |->
        LET e == ParseEntry(entries[i].text) IN Host(i, e.hostname, e.hostname)]

RoleTextAsStored(role) == role

\* the role line of a target
RoleText(role) ==
    IF role = "worker" THEN "worker"
    ELSE IF role = "controller" THEN "controller"
    ELSE "controller+worker"

\* load_k0sctl_config: the text between the first two double quotes of the
\* virtualIPs line
ParseVirtualIP(written) == IF written = QuotedVirtualIP THEN "10.0.0.9" ELSE written

ParseAuthPassNoStrip(written) == " " \o written

\* load_k0sctl_config: line.split('authPass:')[1].strip(); a token_hex token holds
\* neither blanks nor 'authPass:'
ParseAuthPass(written) == written

load_k0sctl_config(cfg) ==
    IF cfg.exists
    THEN [keys |-> {k \in {"virtual_ip"} : "virtualIPs" \in cfg.lines}
                   \cup {k \in {"auth_pass"} : "authPass" \in cfg.lines},
          virtual_ip |-> IF "virtualIPs" \in cfg.lines THEN ParseVirtualIP(cfg.vip) ELSE "",
          auth_pass |-> IF "authPass" \in cfg.lines THEN ParseAuthPass(cfg.auth) ELSE ""]
    ELSE [keys |-> {}, virtual_ip |-> "", auth_pass |-> ""]

\* the auth_pass generate_k0sctl_config settles on; tok is what token_hex returns
AuthPassFresh(cfg, auth, tok) == tok

AuthPassFor(cfg, auth, tok) ==
    LET k0sctl_values == load_k0sctl_config(cfg)
    IN  IF "auth_pass" \in k0sctl_values.keys THEN k0sctl_values.auth_pass
        ELSE IF auth = "" THEN tok
        ELSE auth

TargetsOf(hs, user) ==
    LET en == SelectSeq(hs, LAMBDA h : h.enabled)
    IN  [i \in 1..Len(en) |->
            [role |-> RoleText(en[i].role), address |-> en[i].ip_address,
             user |-> user, port |-> SshPort]]

\* generate_k0sctl_config: the file and self.auth_pass after the call
generate_k0sctl_config(hs, user, vip, auth, cfg, tok) ==
    IF hs = <<>> THEN [cfg |-> cfg, auth |-> auth]
    ELSE LET a == AuthPassFor(cfg, auth, tok)
         IN  [cfg  |-> [exists |-> TRUE, lines |-> {"virtualIPs", "authPass"},
                        targets |-> TargetsOf(hs, user), vip |-> vip, auth |-> a],
              auth |-> a]

\* save_hosts: both files and self.auth_pass after the call
save_hosts(hs, user, vip, auth, cfg, tok) ==
    LET g == generate_k0sctl_config(hs, user, vip, auth, cfg, tok)
    IN  [list |-> ListFileOf(hs), cfg |-> g.cfg, auth |-> g.auth]

\* update_table: self.selected_index after the call
update_table(hs, sel, preserve_selection) ==
    IF preserve_selection # None /\ 0 <= preserve_selection /\ preserve_selection < Len(hs)
    THEN preserve_selection
    ELSE IF sel # None /\ sel >= Len(hs)
    THEN (IF hs # <<>> THEN Len(hs) - 1 ELSE None)
    ELSE sel

\* load_config()
load_config(sf) ==
    IF sf.exists
    THEN [keys |-> sf.keys, username |-> sf.username, virtual_ip |-> sf.virtual_ip]
    ELSE [keys |-> {"username"}, username |-> LoginName, virtual_ip |-> ""]

\* config[key] = value
SetKey(config, key, value) ==
    [[config EXCEPT ![key] = value] EXCEPT !.keys = config.keys \cup {key}]

\* save_config(config)
save_config(config) ==
    [exists |-> TRUE, keys |-> config.keys, username |-> config.username,
     virtual_ip |-> config.virtual_ip]

(***************************************************************************)
(* Bounds of the program model                                             *)
(***************************************************************************)
\* the store never grows beyond MaxHosts hosts (an add that would is not taken)
MaxHosts == 2

(***************************************************************************)
(* Initial state: no process is running; the three files are what an       *)
(* earlier run or the user left on disk.                                   *)
(***************************************************************************)
InitProg(lf, cf, sf) ==
    /\ hosts = <<>>
    /\ selected_index = None
    /\ input_value = <<>>
    /\ username = <<>>
    /\ virtual_ip = DefaultVirtualIP
    /\ auth_pass = ""
    /\ app_host_username = <<>>
    /\ listFile = lf
    /\ cfgFile = cf
    /\ settingsFile = sf
    /\ phase = "off"
    /\ user_confirmed_continue = FALSE
    /\ mainConfig = load_config(NoSettingsFile)
    /\ loopEnd = "none"
    /\ deployed = FALSE
    /\ pendingCycles = 0
    /\ workers = <<>>
    /\ resolvers = <<>>
    /\ focus = "username-input"
    /\ lastOp = "none"

IdlePure ==
    /\ pattern = <<>>
    /\ expanded = <<>>
    /\ valid = FALSE
    /\ called = {}

\* a k0sctl.yaml left by an earlier deployment
EarlierCfg ==
    [exists |-> TRUE, lines |-> {"virtualIPs", "authPass"},
     targets |-> << [role |-> "controller", address |-> <<"a">>, user |-> <<"u">>,
                     port |-> SshPort] >>,
     vip |-> "10.0.0.5/24", auth |-> "9f8e7d6c"]

\* a k0sctl.yaml written by hand, without the keepalived lines
BareCfg ==
    [exists |-> TRUE, lines |-> {},
     targets |-> << [role |-> "controller", address |-> <<"a">>, user |-> <<"u">>,
                     port |-> SshPort] >>,
     vip |-> "", auth |-> ""]

(***************************************************************************)
(* main() up to the running event loop: load_config, SparxApp(),           *)
(* HostManager.compose (load_hosts), HostManager.on_mount                  *)
(* (load_k0sctl_config, load_hosts, call_later) and SparxApp.on_mount      *)
(* (call_later).                                                           *)
(***************************************************************************)
NumMountCycles == 2

NumLoadCalls == 2

Start ==
    /\ phase = "off"
    /\ LET config        == load_config(settingsFile)
           uname         == IF "username" \in config.keys THEN config.username
                            ELSE LoginName
           k0sctl_values == load_k0sctl_config(cfgFile)
       IN  /\ mainConfig' = config
           /\ app_host_username' = uname
           /\ username' = IF listFile.exists
                          THEN LoadedUsername(listFile.entries, uname) ELSE uname
           /\ hosts' = IF listFile.exists THEN LoadedHosts(listFile.entries) ELSE <<>>
           /\ resolvers' = IF listFile.exists THEN [i \in 1..NumLoadCalls |-> 0] ELSE <<>>
           /\ virtual_ip' = IF "virtual_ip" \in k0sctl_values.keys
                            THEN k0sctl_values.virtual_ip ELSE DefaultVirtualIP
           /\ auth_pass' = IF "auth_pass" \in k0sctl_values.keys
                           THEN k0sctl_values.auth_pass ELSE ""
    /\ selected_index' = None
    /\ input_value' = <<>>
    /\ phase' = "running"
    /\ user_confirmed_continue' = FALSE
    /\ loopEnd' = "none"
    /\ deployed' = FALSE
    /\ pendingCycles' = NumMountCycles
    /\ workers' = <<>>
    /\ focus' = "username-input"
    /\ lastOp' = "start"
    /\ UNCHANGED <<fileVars, pureVars>>

(***************************************************************************)
(* The add button: HostManager.on_button_pressed, button_id "add-btn"      *)
(***************************************************************************)
\* the texts typed into the host input in the specifications below
HostInputs ==
    {<<>>, <<"a">>, <<"A">>, <<"b">>, <<"h", "1">>,
     <<"u", "@", "h", "[", "1", "-", "1", "]">>,
     <<"n", "[", "1", "-", "2", "]">>,
     <<"a", ".", ".", "b">>}

\* validate_hostname and expand_host_pattern on these texts, computed once
AllInputsValid == [t \in HostInputs |-> TRUE]

ValidatedInputs == [t \in HostInputs |-> validate_hostname(t)]

ExpandedInputs == [t \in HostInputs |-> expand_host_pattern(t)]

existing_hostnames(hs) == {Lower(hs[i].name) : i \in 1..Len(hs)}

duplicates(new_hosts, hs) ==
    SelectSeq(new_hosts, LAMBDA n : Lower(n) \in existing_hostnames(hs))

hosts_to_add(new_hosts, hs) ==
    SelectSeq(new_hosts, LAMBDA n : Lower(n) \notin existing_hostnames(hs))

AddOutcome(value, hs) ==
    IF value = <<>> THEN "add_empty"
    ELSE IF ~ValidatedInputs[value] THEN "add_invalid"
    ELSE LET new_hosts == ExpandedInputs[value]
         IN  IF new_hosts = <<>> THEN "add_nothing"
             ELSE IF duplicates(new_hosts, hs) = <<>> THEN "add_ok"
             ELSE IF Len(duplicates(new_hosts, hs)) = Len(new_hosts) THEN "add_all_duplicates"
             ELSE "add_partial"

\* ', '.join(names)
RECURSIVE Join(_)
Join(names) ==
    IF names = <<>> THEN <<>>
    ELSE IF Len(names) = 1 THEN names[1]
    ELSE names[1] \o <<",", " ">> \o Join(Tail(names))

\* what the add handler passes to self.notify: the severity, the fixed words of
\* the message and the text formatted into it
AddNotice(value, hs) ==
    LET outcome == AddOutcome(value, hs)
    IN  IF outcome = "add_empty"
        THEN [severity |-> "error", title |-> "Hostname cannot be empty", detail |-> <<>>]
        ELSE IF outcome = "add_invalid"
        THEN [severity |-> "error", title |-> "Invalid hostname format", detail |-> <<>>]
        ELSE IF outcome = "add_nothing"
        THEN [severity |-> "error", title |-> "No hosts generated from pattern",
              detail |-> <<>>]
        ELSE IF outcome = "add_all_duplicates"
        THEN [severity |-> "error", title |-> "All hosts already exist: ",
              detail |-> Join(duplicates(ExpandedInputs[value], hs))]
        ELSE IF outcome = "add_partial"
        THEN [severity |-> "warning", title |-> "Skipping duplicate hosts: ",
              detail |-> Join(duplicates(ExpandedInputs[value], hs))]
        ELSE [severity |-> "none", title |-> "", detail |-> <<>>]

\* the ip_address given to a new host: resolves says whether gethostbyname succeeds
AddedAddress(host_name, resolves) ==
    IF IsIPShape(host_name) THEN host_name
    ELSE IF resolves THEN DnsAnswer(host_name)
    ELSE host_name

\* The Add button is pressed (or Enter in the host input) with text in the host
\* input. okset: the positions in hosts_to_add whose name resolves; tok: what
\* token_hex would return.
AddHost(text, okset, tok) ==
    /\ phase = "running"
    /\ LET outcome == AddOutcome(text, hosts)
       IN  IF outcome \in {"add_ok", "add_partial"}
           THEN LET names == hosts_to_add(ExpandedInputs[text], hosts)
                    ips   == [k \in 1..Len(names) |-> AddedAddress(names[k], k \in okset)]
                    hs    == AppendHosts(hosts, workers, names, ips)
                    saved == save_hosts(hs, username, virtual_ip, auth_pass, cfgFile, tok)
                IN  /\ Len(hosts) + Len(names) <= MaxHosts
                    /\ okset \subseteq 1..Len(names)
                    /\ hosts' = hs
                    /\ input_value' = <<>>
                    /\ listFile' = saved.list
                    /\ cfgFile' = saved.cfg
                    /\ auth_pass' = saved.auth
                    /\ selected_index' = update_table(hs, selected_index, None)
                    /\ lastOp' = outcome
           ELSE /\ okset = {}
                /\ tok = CHOOSE t \in Tokens : TRUE
                /\ lastOp' = outcome
                /\ input_value' = text
                /\ UNCHANGED <<hosts, listFile, cfgFile, auth_pass, selected_index>>
    /\ UNCHANGED <<username, virtual_ip, app_host_username, settingsFile, lifeVars,
                   probeVars, navVars, pureVars>>

\* the user edits the text of the host input; HostInput.on_input_changed only
\* sets or clears the "error" class of the widget
TypeHost(text) ==
    /\ phase = "running"
    /\ input_value # text
    /\ input_value' = text
    /\ lastOp' = "other"
    /\ UNCHANGED <<hosts, selected_index, settingVars, fileVars, lifeVars, probeVars,
                   navVars, pureVars>>

\* the Add button pressed on the text that stands in the host input
PressAdd(okset, tok) == AddHost(input_value, okset, tok)

(***************************************************************************)
(* Key bindings r, e, t                                                    *)
(***************************************************************************)
\* del self.hosts[-1]: the last host, whatever the index
RemoveLast(hs, i) == SubSeq(hs, 1, Len(hs) - 1)

RemoveAt(hs, i) == SubSeq(hs, 1, i) \o SubSeq(hs, i + 2, Len(hs))

\* a thread that holds the removed object keeps its fields in det
Detach(ws, h) ==
    [i \in 1..Len(ws) |->
        IF ws[i].ref = h.id THEN [ws[i] EXCEPT !.det = h.connection_status] ELSE ws[i]]

\* SparxApp.action_remove_host
action_remove_host(tok) ==
    /\ phase = "running"
    /\ IF selected_index # None /\ 0 <= selected_index /\ selected_index < Len(hosts)
       THEN LET hs    == RemoveAt(hosts, selected_index)
                saved == save_hosts(hs, username, virtual_ip, auth_pass, cfgFile, tok)
            IN  /\ hosts' = hs
                /\ workers' = Detach(workers, hosts[selected_index + 1])
                /\ listFile' = saved.list
                /\ cfgFile' = saved.cfg
                /\ auth_pass' = saved.auth
                /\ selected_index' = update_table(hs, None, None)
                /\ lastOp' = "remove"
       ELSE /\ tok = CHOOSE t \in Tokens : TRUE
            /\ lastOp' = "remove_nothing"
            /\ UNCHANGED <<hosts, workers, listFile, cfgFile, auth_pass, selected_index>>
    /\ UNCHANGED <<input_value, username, virtual_ip, app_host_username, settingsFile,
                   lifeVars, pendingCycles, resolvers, navVars, pureVars>>

\* SparxApp.action_toggle_host
action_toggle_host(tok) ==
    /\ phase = "running"
    /\ IF selected_index # None /\ 0 <= selected_index /\ selected_index < Len(hosts)
       THEN LET hs    == [hosts EXCEPT ![selected_index + 1].enabled = ~@]
                saved == save_hosts(hs, username, virtual_ip, auth_pass, cfgFile, tok)
            IN  /\ hosts' = hs
                /\ listFile' = saved.list
                /\ cfgFile' = saved.cfg
                /\ auth_pass' = saved.auth
                /\ selected_index' = update_table(hs, selected_index, selected_index)
                /\ lastOp' = "toggle"
       ELSE /\ tok = CHOOSE t \in Tokens : TRUE
            /\ lastOp' = "toggle_nothing"
            /\ UNCHANGED <<hosts, listFile, cfgFile, auth_pass, selected_index>>
    /\ UNCHANGED <<input_value, username, virtual_ip, app_host_username, settingsFile,
                   lifeVars, probeVars, navVars, pureVars>>

\* worker -> controller -> both -> worker
NextRoleTwoWay(role) == IF role = "worker" THEN "controller" ELSE "worker"

NextRole(role) ==
    IF role = "worker" THEN "controller"
    ELSE IF role = "controller" THEN "both"
    ELSE "worker"

\* HostManager.action_toggle_role (SparxApp.action_toggle_role calls it)
action_toggle_role(tok) ==
    /\ phase = "running"
    /\ IF selected_index # None /\ 0 <= selected_index /\ selected_index < Len(hosts)
       THEN LET hs    == [hosts EXCEPT ![selected_index + 1].role = NextRole(@)]
                saved == save_hosts(hs, username, virtual_ip, auth_pass, cfgFile, tok)
            IN  /\ hosts' = hs
                /\ listFile' = saved.list
                /\ cfgFile' = saved.cfg
                /\ auth_pass' = saved.auth
                /\ selected_index' = update_table(hs, selected_index, selected_index)
                /\ lastOp' = "role"
       ELSE /\ tok = CHOOSE t \in Tokens : TRUE
            /\ lastOp' = "role_nothing"
            /\ UNCHANGED <<hosts, listFile, cfgFile, auth_pass, selected_index>>
    /\ UNCHANGED <<input_value, username, virtual_ip, app_host_username, settingsFile,
                   lifeVars, probeVars, navVars, pureVars>>

(***************************************************************************)
(* The table cursor                                                        *)
(***************************************************************************)
CursorRowUnchecked(row, n) == TRUE

\* the range test of HostTable._on_cursor_changed and HostTable.on_key
CursorRowOk(row, n) == 0 <= row /\ row < n

\* HostTable._on_cursor_changed(cursor), cursor = (row, _)
OnCursorChanged(row) ==
    /\ phase = "running"
    /\ selected_index' = IF CursorRowOk(row, Len(hosts)) THEN row ELSE selected_index
    /\ lastOp' = "other"
    /\ UNCHANGED <<hosts, input_value, settingVars, fileVars, lifeVars, probeVars,
                   navVars, pureVars>>

\* HostManager.on_data_table_row_selected: the rows are added without a key, so
\* event.row_key.value is None
on_data_table_row_selected ==
    /\ phase = "running"
    /\ selected_index' = None
    /\ lastOp' = "other"
    /\ UNCHANGED <<hosts, input_value, settingVars, fileVars, lifeVars, probeVars,
                   navVars, pureVars>>

(***************************************************************************)
(* HostManager.on_input_changed                                            *)
(***************************************************************************)
\* the username input changed
EditUsername(value) ==
    /\ phase = "running"
    /\ username' = value
    /\ app_host_username' = value
    /\ settingsFile' = save_config(SetKey(load_config(settingsFile), "username", value))
    /\ lastOp' = "other"
    /\ UNCHANGED <<storeVars, virtual_ip, auth_pass, listFile, cfgFile, lifeVars,
                   probeVars, navVars, pureVars>>

\* the virtual IP input changed
EditVirtualIP(value) ==
    /\ phase = "running"
    /\ virtual_ip' = value
    /\ settingsFile' = save_config(SetKey(load_config(settingsFile), "virtual_ip", value))
    /\ lastOp' = "other"
    /\ UNCHANGED <<storeVars, username, auth_pass, app_host_username, listFile, cfgFile,
                   lifeVars, probeVars, navVars, pureVars>>

(***************************************************************************)
(* The end of the interaction loop and the rest of main()                  *)
(***************************************************************************)
\* main() after app.run() returned: config["username"] = app.host_username;
\* save_config(config)
SavedAtExit == save_config(SetKey(mainConfig, "username", app_host_username))

\* the process ends: its threads are daemon threads, and the objects of the
\* session are gone (the variables take the values they have before a start)
EndSession ==
    /\ hosts' = <<>>
    /\ selected_index' = None
    /\ input_value' = <<>>
    /\ username' = <<>>
    /\ virtual_ip' = DefaultVirtualIP
    /\ auth_pass' = ""
    /\ app_host_username' = <<>>
    /\ mainConfig' = load_config(NoSettingsFile)
    /\ pendingCycles' = 0
    /\ workers' = <<>>
    /\ resolvers' = <<>>
    /\ focus' = "username-input"

AfterLoopUnchecked(confirmed, cfgExists) == IF cfgExists THEN "prompt" ELSE "off"

\* main() after app.run() returned normally: it returns unless the flag is set
\* and k0sctl/k0sctl.yaml exists, and then asks its final question
AfterLoop(confirmed, cfgExists) ==
    IF ~confirmed THEN "off"
    ELSE IF cfgExists THEN "prompt"
    ELSE "off"

\* the loop ended by self.app.exit() with the flag set
ConfirmedExit(how) ==
    /\ phase = "running"
    /\ user_confirmed_continue' = TRUE
    /\ loopEnd' = "confirm"
    /\ settingsFile' = SavedAtExit
    /\ phase' = AfterLoop(TRUE, cfgFile.exists)
    /\ EndSession
    /\ lastOp' = how
    /\ UNCHANGED <<listFile, cfgFile, deployed, pureVars>>

\* HostManager.on_button_pressed, button_id "continue"
PressContinueButton == ConfirmedExit("continue_button")

\* SparxApp.action_press_continue (key c)
action_press_continue == ConfirmedExit("continue_key")

\* key q: App.action_quit; app.run() returns, the flag is as it was
action_quit ==
    /\ phase = "running"
    /\ loopEnd' = "quit"
    /\ settingsFile' = SavedAtExit
    /\ phase' = AfterLoop(user_confirmed_continue, cfgFile.exists)
    /\ EndSession
    /\ lastOp' = "quit"
    /\ UNCHANGED <<listFile, cfgFile, user_confirmed_continue, deployed, pureVars>>

\* app.run() raises KeyboardInterrupt
KeyboardInterrupt ==
    /\ phase = "running"
    /\ loopEnd' = "interrupt"
    /\ settingsFile' = SavedAtExit
    /\ phase' = "off"
    /\ EndSession
    /\ lastOp' = "interrupt"
    /\ UNCHANGED <<listFile, cfgFile, user_confirmed_continue, deployed, pureVars>>

\* app.run() raises another exception
UIError ==
    /\ phase = "running"
    /\ loopEnd' = "error"
    /\ phase' = "off"
    /\ EndSession
    /\ lastOp' = "ui_error"
    /\ UNCHANGED <<fileVars, user_confirmed_continue, deployed, pureVars>>

(***************************************************************************)
(* A write of save_hosts that fails.  open() of inventories/remote.py or   *)
(* of k0sctl/k0sctl.yaml raises OSError; the file whose open failed is as  *)
(* it was.  on_button_pressed wraps the add in try/except and notifies;    *)
(* the key actions have no try, so the exception leaves the handler and    *)
(* the application ends with the error on the terminal (app.run() raises   *)
(* it, or returns after the traceback was printed and main() goes on).     *)
(***************************************************************************)
OnSaveErrorPrintOnly(handler) == "print"

\* what becomes of an exception raised by save_hosts in the handler
OnSaveError(handler) == IF handler = "add" THEN "notify" ELSE "raise"

\* save_hosts up to the open() that fails: both files and self.auth_pass
SaveFailure(hs, auth, lf, cfg, tok, which) ==
    IF which = "list" THEN [list |-> lf, cfg |-> cfg, auth |-> auth]
    ELSE [list |-> ListFileOf(hs), cfg |-> cfg, auth |-> AuthPassFor(cfg, auth, tok)]

\* the rest of a handler whose save_hosts raised on the store hs; sel, inp and
\* ws are what the handler had assigned before the call
SaveErrorStep(handler, hs, sel, inp, ws, which, tok, raised) ==
    /\ which = "cfg" => hs # <<>>
    /\ LET saved == SaveFailure(hs, auth_pass, listFile, cfgFile, tok, which)
           how   == OnSaveError(handler)
       IN  /\ listFile' = saved.list
           /\ cfgFile' = saved.cfg
           /\ IF how = "raise"
              THEN /\ EndSession
                   /\ phase' = "off"
                   /\ loopEnd' = "error"
                   /\ settingsFile' = IF raised THEN settingsFile ELSE SavedAtExit
                   /\ lastOp' = "save_error_raised"
                   /\ UNCHANGED <<user_confirmed_continue, deployed>>
              ELSE /\ raised = FALSE
                   /\ hosts' = hs
                   /\ selected_index' = sel
                   /\ input_value' = inp
                   /\ workers' = ws
                   /\ auth_pass' = saved.auth
                   /\ lastOp' = IF how = "notify" THEN "save_error_notified"
                                ELSE "save_error_printed"
                   /\ UNCHANGED <<username, virtual_ip, app_host_username, settingsFile,
                                  lifeVars, pendingCycles, resolvers, navVars>>
    /\ UNCHANGED pureVars

\* the Add button on a text that adds hosts, with save_hosts failing: the hosts
\* are appended and the input is cleared before the call; update_table is not
\* reached
AddHostSaveFails(text, okset, which, tok, raised) ==
    /\ phase = "running"
    /\ AddOutcome(text, hosts) \in {"add_ok", "add_partial"}
    /\ LET names == hosts_to_add(ExpandedInputs[text], hosts)
           ips   == [k \in 1..Len(names) |-> AddedAddress(names[k], k \in okset)]
       IN  /\ Len(hosts) + Len(names) <= MaxHosts
           /\ okset \subseteq 1..Len(names)
           /\ SaveErrorStep("add", AppendHosts(hosts, workers, names, ips), selected_index,
                            <<>>, workers, which, tok, raised)

\* the remove, toggle or role key on a valid selection, with save_hosts failing
KeySaveFails(handler, which, tok, raised) ==
    /\ phase = "running"
    /\ selected_index # None /\ 0 <= selected_index /\ selected_index < Len(hosts)
    /\ LET i == selected_index + 1
       IN  IF handler = "remove"
           THEN SaveErrorStep(handler, RemoveAt(hosts, selected_index), None, input_value,
                              Detach(workers, hosts[i]), which, tok, raised)
           ELSE IF handler = "toggle"
           THEN SaveErrorStep(handler, [hosts EXCEPT ![i].enabled = ~@], selected_index,
                              input_value, workers, which, tok, raised)
           ELSE SaveErrorStep(handler, [hosts EXCEPT ![i].role = NextRole(@)],
                              selected_index, input_value, workers, which, tok, raised)

\* the answer to "Are you ABSOLUTELY sure ...": run_cmd("k0sctl apply ...") on "yes"
AnswerPrompt(yes) ==
    /\ phase = "prompt"
    /\ deployed' = yes
    /\ phase' = "off"
    /\ lastOp' = IF yes THEN "deploy" ELSE "cancel"
    /\ UNCHANGED <<storeVars, settingVars, fileVars, user_confirmed_continue,
                   mainConfig, loopEnd, probeVars, navVars, pureVars>>

(***************************************************************************)
(* The arrow keys                                                          *)
(***************************************************************************)
\* the focusable widgets in the order HostManager.compose yields them
FocusOrder ==
    <<"username-input", "host-table", "host-input", "add-btn", "vip-input", "continue">>

FocusPos(f) == CHOOSE i \in 1..Len(FocusOrder) : FocusOrder[i] = f

\* self.screen.focus_next()
focus_next(f) == FocusOrder[(FocusPos(f) % Len(FocusOrder)) + 1]

\* self.screen.focus_previous()
focus_previous(f) == FocusOrder[((FocusPos(f) + Len(FocusOrder) - 2) % Len(FocusOrder)) + 1]

Keys == {"up", "down"}

\* len(self.hosts) - 1
FirstRow(hs) == 0

LastRow(hs) == Len(hs) - 1

\* manager.selected_index == 0 or manager.selected_index is None
TopRowOnly(sel) == sel = 0

TopOfTable(sel) == sel = 0 \/ sel = None

\* HostTable.on_key: an arrow key with the table cursor on row
HostTable_on_key(key, row) ==
    /\ phase = "running"
    /\ focus = "host-table"
    /\ selected_index' = IF key \in Keys /\ CursorRowOk(row, Len(hosts))
                         THEN row ELSE selected_index
    /\ lastOp' = "other"
    /\ UNCHANGED <<hosts, input_value, settingVars, fileVars, lifeVars, probeVars,
                   navVars, pureVars>>

\* HostManager.on_key
HostManager_on_key(key) ==
    /\ phase = "running"
    /\ IF focus = "host-table" /\ key = "up" /\ TopOfTable(selected_index)
       THEN focus' = "username-input" /\ UNCHANGED selected_index
       ELSE IF /\ focus = "host-table" /\ key = "down"
               /\ selected_index # None /\ selected_index >= Len(hosts) - 1
       THEN focus' = "host-input" /\ UNCHANGED selected_index
       ELSE IF focus = "host-input" /\ key = "up" /\ Len(hosts) > 0
       THEN focus' = "host-table" /\ selected_index' = LastRow(hosts)
       ELSE IF focus = "username-input" /\ key = "down" /\ Len(hosts) > 0
       THEN focus' = "host-table" /\ selected_index' = 0
       ELSE IF focus = "add-btn" /\ key = "down"
       THEN focus' = "vip-input" /\ UNCHANGED selected_index
       ELSE IF focus = "vip-input" /\ key = "up"
       THEN focus' = "add-btn" /\ UNCHANGED selected_index
       ELSE IF focus = "vip-input" /\ key = "down"
       THEN focus' = "continue" /\ UNCHANGED selected_index
       ELSE IF focus = "continue" /\ key = "up"
       THEN focus' = "vip-input" /\ UNCHANGED selected_index
       ELSE UNCHANGED <<focus, selected_index>>
    /\ lastOp' = IF focus # "host-table" THEN "other"
                 ELSE IF key = "up" THEN "key_up" ELSE "key_down"
    /\ UNCHANGED <<hosts, input_value, settingVars, fileVars, lifeVars, probeVars,
                   pureVars>>

\* SparxApp.action_move_up
action_move_up ==
    /\ phase = "running"
    /\ IF focus = "host-table"
       THEN IF Len(hosts) = 0 \/ TopOfTable(selected_index)
            THEN focus' = "username-input" /\ UNCHANGED selected_index
            ELSE selected_index' = (selected_index - 1) % Len(hosts) /\ UNCHANGED focus
       ELSE IF focus = "host-input"
       THEN /\ focus' = "host-table"
            /\ selected_index' = IF Len(hosts) > 0 THEN LastRow(hosts) ELSE selected_index
       ELSE IF focus = "add-btn"
       THEN focus' = "host-input" /\ UNCHANGED selected_index
       ELSE IF focus = "continue"
       THEN focus' = "add-btn" /\ UNCHANGED selected_index
       ELSE focus' = focus_previous(focus) /\ UNCHANGED selected_index
    /\ lastOp' = IF focus = "host-table" THEN "move_up" ELSE "other"
    /\ UNCHANGED <<hosts, input_value, settingVars, fileVars, lifeVars, probeVars,
                   pureVars>>

\* SparxApp.action_move_down
action_move_down ==
    /\ phase = "running"
    /\ IF focus = "username-input"
       THEN /\ focus' = "host-table"
            /\ selected_index' = IF Len(hosts) > 0 THEN 0 ELSE selected_index
       ELSE IF focus = "host-table"
       THEN IF Len(hosts) = 0 \/ selected_index = Len(hosts) - 1 \/ selected_index = None
            THEN focus' = "host-input" /\ UNCHANGED selected_index
            ELSE selected_index' = (selected_index + 1) % Len(hosts) /\ UNCHANGED focus
       ELSE IF focus = "host-input"
       THEN focus' = "add-btn" /\ UNCHANGED selected_index
       ELSE IF focus = "add-btn"
       THEN focus' = "continue" /\ UNCHANGED selected_index
       ELSE focus' = focus_next(focus) /\ UNCHANGED selected_index
    /\ lastOp' = IF focus = "host-table" THEN "move_down" ELSE "other"
    /\ UNCHANGED <<hosts, input_value, settingVars, fileVars, lifeVars, probeVars,
                   pureVars>>

\* SparxApp.action_move_right; at_end: the text cursor is at the end of the input
action_move_right(at_end) ==
    /\ phase = "running"
    /\ focus' = IF focus = "host-input" THEN (IF at_end THEN "add-btn" ELSE focus)
                ELSE IF focus = "add-btn" THEN "continue"
                ELSE focus
    /\ lastOp' = "other"
    /\ UNCHANGED <<storeVars, settingVars, fileVars, lifeVars, probeVars, pureVars>>

\* SparxApp.action_move_left
action_move_left ==
    /\ phase = "running"
    /\ focus' = IF focus = "add-btn" THEN "host-input"
                ELSE IF focus = "continue" THEN "add-btn"
                ELSE focus
    /\ lastOp' = "other"
    /\ UNCHANGED <<storeVars, settingVars, fileVars, lifeVars, probeVars, pureVars>>

(***************************************************************************)
(* One press of a key.  The Key event goes to the focused widget and       *)
(* bubbles through HostManager.on_key; a handler that calls event.stop()   *)
(* ends it there, otherwise it reaches the bindings, where the action      *)
(* bound in SparxApp.BINDINGS runs unless the focused widget binds the key *)
(* itself, as the DataTable does for the arrows (its cursor then moves and *)
(* _on_cursor_changed runs).  on_key changes state only in the branches    *)
(* that call event.stop().                                                 *)
(***************************************************************************)
\* the branches of HostManager.on_key that end in event.stop()
OnKeyStopsNever(key) == FALSE

OnKeyStops(key) ==
    \/ focus = "host-table" /\ key = "up" /\ TopOfTable(selected_index)
    \/ /\ focus = "host-table" /\ key = "down"
       /\ selected_index # None /\ selected_index >= Len(hosts) - 1
    \/ focus = "host-input" /\ key = "up" /\ Len(hosts) > 0
    \/ focus = "username-input" /\ key = "down" /\ Len(hosts) > 0
    \/ focus = "add-btn" /\ key = "down"
    \/ focus = "vip-input"
    \/ focus = "continue" /\ key = "up"

\* the up or down key
PressKey(key) ==
    IF focus = "host-table" \/ OnKeyStops(key) THEN HostManager_on_key(key)
    ELSE IF key = "up" THEN action_move_up
    ELSE action_move_down

\* HostInput.on_key, Enter: add_btn.press() and then self.focus()
HostInput_on_key_enter(okset, tok) ==
    /\ focus = "host-input"
    /\ PressAdd(okset, tok)
    /\ focus' = "host-input"

(***************************************************************************)
(* The connectivity prober.  A probe thread is a record: idx is the index  *)
(* its loop is at, ref the identity of the Host object it holds (0: none), *)
(* det the connection_status of that object once the object is no longer   *)
(* in the list, stage where the thread is: "next" before it fetches        *)
(* hosts[idx], "connect" before connect_ex, "wait" inside call_from_thread.*)
(***************************************************************************)
NewWorker == [idx |-> 0, ref |-> 0, det |-> "unknown", stage |-> "next"]

\* the position in the list of the object with this identity, 0 when it is gone
PosOf(hs, id) ==
    IF \E i \in 1..Len(hs) : hs[i].id = id
    THEN CHOOSE i \in 1..Len(hs) : hs[i].id = id
    ELSE 0

\* host.connection_status as the thread's object has it
ObjStatus(hs, w) ==
    IF PosOf(hs, w.ref) > 0 THEN hs[PosOf(hs, w.ref)].connection_status ELSE w.det

DropAt(q, k) == SubSeq(q, 1, k - 1) \o SubSeq(q, k + 1, Len(q))

\* for host in self.hosts: host.connection_status = "\u23f3"
LeaveStatus(hs) == hs

MarkChecking(hs) == [i \in 1..Len(hs) |-> [hs[i] EXCEPT !.connection_status = "checking"]]

\* HostManager.check_host_connectivity, run by the event loop for each call_later
\* of the two on_mount handlers
check_host_connectivity ==
    /\ phase = "running"
    /\ pendingCycles > 0
    /\ pendingCycles' = pendingCycles - 1
    /\ IF hosts = <<>>
       THEN UNCHANGED <<hosts, selected_index, workers>>
       ELSE /\ hosts' = MarkChecking(hosts)
            /\ selected_index' = update_table(hosts, selected_index, selected_index)
            /\ workers' = Append(workers, NewWorker)
    /\ lastOp' = "check"
    /\ UNCHANGED <<input_value, settingVars, fileVars, lifeVars, resolvers, navVars,
                   pureVars>>

\* _check_connectivity, from the loop head to the end of the DNS lookup: the
\* thread takes hosts[idx] and calls gethostbyname; resolves is its outcome
WorkerLookup(k, resolves) ==
    /\ phase = "running"
    /\ k \in 1..Len(workers)
    /\ workers[k].stage = "next"
    /\ LET idx == workers[k].idx
       IN  IF idx < Len(hosts)
           THEN LET h == hosts[idx + 1]
                IN  IF resolves
                    THEN /\ hosts' = [hosts EXCEPT ![idx + 1].ip_address = DnsAnswer(h.name)]
                         /\ workers' = [workers EXCEPT ![k] =
                                [@ EXCEPT !.ref = h.id, !.det = h.connection_status,
                                          !.stage = "connect"]]
                    ELSE /\ hosts' = [hosts EXCEPT ![idx + 1].connection_status = "dns_failed",
                                                   ![idx + 1].ip_address = h.name]
                         /\ workers' = [workers EXCEPT ![k] =
                                [@ EXCEPT !.ref = h.id, !.det = "dns_failed",
                                          !.stage = "wait"]]
           ELSE /\ resolves = FALSE
                /\ workers' = DropAt(workers, k)
                /\ UNCHANGED hosts
    /\ lastOp' = "thread"
    /\ UNCHANGED <<selected_index, input_value, settingVars, fileVars, lifeVars,
                   pendingCycles, resolvers, navVars, pureVars>>

\* _check_connectivity: connect_ex returned (connected: result == 0) or raised
WorkerConnect(k, connected) ==
    /\ phase = "running"
    /\ k \in 1..Len(workers)
    /\ workers[k].stage = "connect"
    /\ LET status == IF connected THEN "reachable" ELSE "unreachable"
           p      == PosOf(hosts, workers[k].ref)
       IN  /\ hosts' = IF p > 0 THEN [hosts EXCEPT ![p].connection_status = status]
                       ELSE hosts
           /\ workers' = [workers EXCEPT ![k] = [@ EXCEPT !.det = status, !.stage = "wait"]]
    /\ lastOp' = "thread"
    /\ UNCHANGED <<selected_index, input_value, settingVars, fileVars, lifeVars,
                   pendingCycles, resolvers, navVars, pureVars>>

MergeTargetClamped(idx, n) == IF idx < n THEN idx ELSE n - 1

\* _update_host_status: the index it writes to, None when it writes nothing
MergeTarget(idx, n) == IF idx < n THEN idx ELSE None

\* HostManager._update_host_status(idx, host) on the event loop; the thread's
\* call_from_thread returns and its loop goes on to the next index
update_host_status(k) ==
    /\ phase = "running"
    /\ k \in 1..Len(workers)
    /\ workers[k].stage = "wait"
    /\ LET idx    == workers[k].idx
           status == ObjStatus(hosts, workers[k])
           target == MergeTarget(idx, Len(hosts))
       IN  /\ hosts' = IF target # None /\ target >= 0
                       THEN [hosts EXCEPT ![target + 1].connection_status = status]
                       ELSE hosts
           /\ workers' = [workers EXCEPT ![k] = [NewWorker EXCEPT !.idx = idx + 1]]
           /\ lastOp' = IF idx < Len(hosts) THEN "update_status" ELSE "update_status_late"
    /\ UNCHANGED <<selected_index, input_value, settingVars, fileVars, lifeVars,
                   pendingCycles, resolvers, navVars, pureVars>>

\* _resolve_all_hosts: one turn of the loop of the thread that load_hosts started;
\* resolvers[r] is the index the thread is at
ResolveStep(r, resolves) ==
    /\ phase = "running"
    /\ r \in 1..Len(resolvers)
    /\ LET pos == resolvers[r]
       IN  IF pos < Len(hosts)
           THEN LET h == hosts[pos + 1]
                IN  /\ IF h.ip_address = h.name /\ ~IsIPShape(h.name)
                       THEN hosts' = IF resolves
                                     THEN [hosts EXCEPT ![pos + 1].ip_address = DnsAnswer(h.name)]
                                     ELSE hosts
                       ELSE resolves = FALSE /\ UNCHANGED hosts
                    /\ resolvers' = [resolvers EXCEPT ![r] = pos + 1]
           ELSE /\ resolves = FALSE
                /\ resolvers' = DropAt(resolvers, r)
                /\ UNCHANGED hosts
    /\ lastOp' = "resolver"
    /\ UNCHANGED <<selected_index, input_value, settingVars, fileVars, lifeVars,
                   pendingCycles, workers, navVars, pureVars>>

(***************************************************************************)
(* SpecStore: the store and its two files under the mutating handlers,     *)
(* the table cursor and restarts of the program.  The prober threads and   *)
(* the focus keys are left out: they write connection_status, ip_address   *)
(* and the focus, and of these the handlers here read only ip_address, to  *)
(* copy it into the address of a target; no added name resolves and        *)
(* token_hex has one result.                                               *)
(***************************************************************************)
StoreInputs ==
    {<<"a">>, <<"A">>, <<"h", "1">>, <<"u", "@", "h", "[", "1", "-", "1", "]">>}

InitStore ==
    /\ IdlePure
    /\ InitProg(NoListFile, NoCfgFile, NoSettingsFile)

\* what token_hex returns in SpecStore
StoreToken == CHOOSE t \in Tokens : TRUE

NextStore ==
    \/ Start
    \/ \E text \in StoreInputs : AddHost(text, {}, StoreToken)
    \/ action_remove_host(StoreToken)
    \/ action_toggle_host(StoreToken)
    \/ action_toggle_role(StoreToken)
    \/ \E row \in 0..MaxHosts : OnCursorChanged(row)
    \/ on_data_table_row_selected
    \/ action_quit

SpecStore == InitStore /\ [][NextStore]_vars

(***************************************************************************)
(* SpecAdd: the host input and the Add button, with the removal of a host  *)
(* so that part of a range can be in the store when the range is added.    *)
(* Each added name may or may not resolve; token_hex has one result.       *)
(***************************************************************************)
AddInputs ==
    {<<>>, <<"a">>, <<"A">>, <<"n", "[", "1", "-", "2", "]">>, <<"a", ".", ".", "b">>}

InitAdd ==
    /\ IdlePure
    /\ InitProg(NoListFile, NoCfgFile, NoSettingsFile)

NextAdd ==
    \/ Start
    \/ \E text \in AddInputs : TypeHost(text)
    \/ \E okset \in SUBSET (1..MaxHosts) : PressAdd(okset, StoreToken)
    \/ action_remove_host(StoreToken)
    \/ \E row \in 0..MaxHosts : OnCursorChanged(row)

SpecAdd == InitAdd /\ [][NextAdd]_vars

(***************************************************************************)
(* SpecLife: one run of main() after another, with what a run leaves in    *)
(* the files: the setting edits, the ways the interaction loop ends, the   *)
(* final question, and the store mutations that regenerate k0sctl.yaml.    *)
(***************************************************************************)
LifeInputs == {<<"a">>, <<"b">>}

UsernameInputs == {<<"w">>}

VirtualIPInputs == {"10.0.0.7/24"}

InitLife ==
    /\ IdlePure
    /\ \E cf \in {NoCfgFile, EarlierCfg, BareCfg} : InitProg(NoListFile, cf, NoSettingsFile)

NextLife ==
    \/ Start
    \/ \E text \in LifeInputs, tok \in Tokens : AddHost(text, {}, tok)
    \/ \E tok \in Tokens : action_remove_host(tok)
    \/ OnCursorChanged(0)
    \/ \E value \in UsernameInputs : EditUsername(value)
    \/ \E value \in VirtualIPInputs : EditVirtualIP(value)
    \/ PressContinueButton
    \/ action_press_continue
    \/ action_quit
    \/ KeyboardInterrupt
    \/ UIError
    \/ \E yes \in BOOLEAN : AnswerPrompt(yes)

SpecLife == InitLife /\ [][NextLife]_vars

(***************************************************************************)
(* SpecGen: generate_k0sctl_config called on its own, any number of times, *)
(* in the states a session reaches.                                        *)
(***************************************************************************)
\* self.generate_k0sctl_config()
Regenerate(tok) ==
    /\ phase = "running"
    /\ LET g == generate_k0sctl_config(hosts, username, virtual_ip, auth_pass, cfgFile, tok)
       IN  /\ cfgFile' = g.cfg
           /\ auth_pass' = g.auth
    /\ lastOp' = IF lastOp \in {"generate", "generate_again"} THEN "generate_again"
                 ELSE "generate"
    /\ UNCHANGED <<storeVars, username, virtual_ip, app_host_username, listFile,
                   settingsFile, lifeVars, probeVars, navVars, pureVars>>

InitGen ==
    /\ IdlePure
    /\ \E cf \in {NoCfgFile, EarlierCfg, BareCfg} : InitProg(NoListFile, cf, NoSettingsFile)

NextGen ==
    \/ Start
    \/ \E text \in LifeInputs : AddHost(text, {}, StoreToken)
    \/ action_toggle_host(StoreToken)
    \/ action_remove_host(StoreToken)
    \/ OnCursorChanged(0)
    \/ \E value \in VirtualIPInputs \cup {QuotedVirtualIP} : EditVirtualIP(value)
    \/ \E tok \in Tokens : Regenerate(tok)

SpecGen == InitGen /\ [][NextGen]_vars

(***************************************************************************)
(* SpecTargets: k0sctl.yaml under everything that generate_k0sctl_config   *)
(* reads: the store with its enabled flags, roles and addresses (an added  *)
(* name may or may not resolve), the username and the virtual IP.          *)
(***************************************************************************)
InitTargets ==
    /\ IdlePure
    /\ InitProg(NoListFile, NoCfgFile, NoSettingsFile)

NextTargets ==
    \/ Start
    \/ \E text \in LifeInputs, okset \in SUBSET {1} : AddHost(text, okset, StoreToken)
    \/ action_toggle_host(StoreToken)
    \/ action_toggle_role(StoreToken)
    \/ action_remove_host(StoreToken)
    \/ \E row \in 0..MaxHosts : OnCursorChanged(row)
    \/ \E value \in UsernameInputs : EditUsername(value)
    \/ \E value \in VirtualIPInputs : EditVirtualIP(value)
    \/ Regenerate(StoreToken)

SpecTargets == InitTargets /\ [][NextTargets]_vars

(***************************************************************************)
(* SpecList: inventories/remote.py under the mutations of the store that   *)
(* change which hosts are listed (add, toggle, remove), in one run of the  *)
(* program; a range is among the inputs so that a host can stand between   *)
(* two others.  The role key, which changes only the comment of an entry,  *)
(* is in SpecStore.                                                        *)
(***************************************************************************)
ListInputs == {<<"a">>, <<"n", "[", "1", "-", "2", "]">>}

InitList ==
    /\ IdlePure
    /\ InitProg(NoListFile, NoCfgFile, NoSettingsFile)

NextList ==
    \/ Start
    \/ \E text \in ListInputs : AddHost(text, {}, StoreToken)
    \/ action_toggle_host(StoreToken)
    \/ action_remove_host(StoreToken)
    \/ \E row \in 0..MaxHosts : OnCursorChanged(row)

SpecList == InitList /\ [][NextList]_vars

(***************************************************************************)
(* SpecFail: the four mutations of the store, each with save_hosts         *)
(* succeeding or failing at either file.                                   *)
(***************************************************************************)
FailedFiles == {"list", "cfg"}

InitFail ==
    /\ IdlePure
    /\ InitProg(NoListFile, NoCfgFile, NoSettingsFile)

NextFail ==
    \/ Start
    \/ \E text \in LifeInputs : AddHost(text, {}, StoreToken)
    \/ action_toggle_host(StoreToken)
    \/ action_toggle_role(StoreToken)
    \/ action_remove_host(StoreToken)
    \/ OnCursorChanged(0)
    \/ \E text \in LifeInputs, which \in FailedFiles :
          AddHostSaveFails(text, {}, which, StoreToken, FALSE)
    \/ \E handler \in {"remove", "toggle", "role"}, which \in FailedFiles, raised \in BOOLEAN :
          KeySaveFails(handler, which, StoreToken, raised)

SpecFail == InitFail /\ [][NextFail]_vars

(***************************************************************************)
(* SpecLoad: the start of the program on a list file that an earlier run   *)
(* left, with entries of the form user@host among the others, and on a     *)
(* settings file whose username an earlier run left empty or set.          *)
(***************************************************************************)
LoadInputs == {<<"a">>, <<"u", "@", "h", "[", "1", "-", "1", "]">>}

\* list files of earlier runs: the second was written by a run of user v that
\* added v@h2 to what the first held
LoadFiles ==
    {NoListFile,
     ListFileOf(<<Host(1, <<"a">>, <<"a">>),
                  Host(2, <<"u", "@", "h", "1">>, <<"u", "@", "h", "1">>)>>),
     ListFileOf(<<Host(1, <<"u", "@", "h", "1">>, <<"u", "@", "h", "1">>),
                  Host(2, <<"v", "@", "h", "2">>, <<"v", "@", "h", "2">>)>>)}

InitLoad ==
    /\ IdlePure
    /\ \E lf \in LoadFiles : InitProg(lf, NoCfgFile, NoSettingsFile)

NextLoad ==
    \/ Start
    \/ \E text \in LoadInputs : AddHost(text, {}, StoreToken)
    \/ action_remove_host(StoreToken)
    \/ OnCursorChanged(0)
    \/ \E value \in UsernameInputs \cup {<<>>} : EditUsername(value)
    \/ action_quit

SpecLoad == InitLoad /\ [][NextLoad]_vars

(***************************************************************************)
(* SpecSel: every handler that can change selected_index, with the         *)
(* handlers that change the length of the store.  action_toggle_host and   *)
(* action_toggle_role are left out: they act only under a valid selection, *)
(* pass it to update_table as preserve_selection, which assigns it back,   *)
(* and change the enabled flag and the role, which no selection code reads.*)
(***************************************************************************)
SelInputs == {<<"a">>, <<"n", "[", "1", "-", "2", "]">>}

InitSel ==
    /\ IdlePure
    /\ InitProg(NoListFile, NoCfgFile, NoSettingsFile)

NextSel ==
    \/ Start
    \/ \E text \in SelInputs : AddHost(text, {}, StoreToken)
    \/ action_remove_host(StoreToken)
    \/ \E row \in 0..MaxHosts : OnCursorChanged(row)
    \/ on_data_table_row_selected
    \/ check_host_connectivity
    \/ \E key \in Keys, row \in 0..MaxHosts : HostTable_on_key(key, row)
    \/ \E key \in Keys : HostManager_on_key(key)
    \/ action_move_up
    \/ action_move_down
    \/ \E at_end \in BOOLEAN : action_move_right(at_end)
    \/ action_move_left

SpecSel == InitSel /\ [][NextSel]_vars

(***************************************************************************)
(* SpecNav: the arrow keys on an inventory that grows and shrinks: the two *)
(* handlers of each key (the on_key of HostManager, which sees the key     *)
(* event, and the action the key is bound to in SparxApp), the cursor of   *)
(* the table, and Enter on a row, which leaves no row selected.  A step of *)
(* an up or down handler taken with the focus in the table is recorded in  *)
(* lastOp as key_up, key_down, move_up or move_down.                       *)
(***************************************************************************)
InitNav ==
    /\ IdlePure
    /\ InitProg(NoListFile, NoCfgFile, NoSettingsFile)

NextNav ==
    \/ Start
    \/ \E text \in SelInputs : AddHost(text, {}, StoreToken)
    \/ action_remove_host(StoreToken)
    \/ \E row \in 0..MaxHosts : OnCursorChanged(row)
    \/ on_data_table_row_selected
    \/ \E key \in Keys : HostManager_on_key(key)
    \/ action_move_up
    \/ action_move_down
    \/ \E at_end \in BOOLEAN : action_move_right(at_end)
    \/ action_move_left

SpecNav == InitNav /\ [][NextNav]_vars

(***************************************************************************)
(* SpecKeys: whole key presses on an inventory that grows and shrinks: the *)
(* arrow keys, Enter in the host input, the text typed there, the cursor   *)
(* of the table and the removal of a host.                                 *)
(***************************************************************************)
KeyInputs == {<<>>, <<"a">>, <<"n", "[", "1", "-", "2", "]">>, <<"a", ".", ".", "b">>}

InitKeys ==
    /\ IdlePure
    /\ InitProg(NoListFile, NoCfgFile, NoSettingsFile)

NextKeys ==
    \/ Start
    \/ \E text \in KeyInputs : TypeHost(text)
    \/ HostInput_on_key_enter({}, StoreToken)
    \/ action_remove_host(StoreToken)
    \/ \E row \in 0..MaxHosts : OnCursorChanged(row)
    \/ \E key \in Keys : PressKey(key)
    \/ \E at_end \in BOOLEAN : action_move_right(at_end)
    \/ action_move_left

SpecKeys == InitKeys /\ [][NextKeys]_vars

(***************************************************************************)
(* SpecProbe: a run that starts on a stored inventory of two hosts: the    *)
(* two probe cycles of the on_mount handlers, their threads, the resolver  *)
(* threads of load_hosts, and hosts being removed while they run.          *)
(***************************************************************************)
\* the files an earlier run left after hosts a and b were added and q pressed
EarlierRun ==
    LET hs    == <<Host(1, <<"a">>, <<"a">>), Host(2, <<"b">>, <<"b">>)>>
        saved == save_hosts(hs, LoginName, DefaultVirtualIP, "", NoCfgFile, StoreToken)
    IN  [list |-> saved.list, cfg |-> saved.cfg,
         settings |-> save_config(SetKey(load_config(NoSettingsFile), "username", LoginName))]

InitProbe ==
    /\ IdlePure
    /\ InitProg(EarlierRun.list, EarlierRun.cfg, EarlierRun.settings)

NextProbe ==
    \/ Start
    \/ check_host_connectivity
    \/ \E k \in 1..NumMountCycles, resolves \in BOOLEAN : WorkerLookup(k, resolves)
    \/ \E k \in 1..NumMountCycles, connected \in BOOLEAN : WorkerConnect(k, connected)
    \/ \E k \in 1..NumMountCycles : update_host_status(k)
    \/ \E r \in 1..NumLoadCalls, resolves \in BOOLEAN : ResolveStep(r, resolves)
    \/ action_remove_host(StoreToken)
    \/ \E row \in 0..MaxHosts : OnCursorChanged(row)

SpecProbe == InitProbe /\ [][NextProbe]_vars

(***************************************************************************)
(* SpecSched: hosts added to an empty inventory while the two probe cycles *)
(* of the on_mount handlers and their threads run.  The event loop runs    *)
(* every callback it was given with call_later and a started thread runs   *)
(* to its end, so each step of a cycle is weakly fair; the user is under   *)
(* no obligation to add a host.                                            *)
(***************************************************************************)
InitSched ==
    /\ IdlePure
    /\ InitProg(NoListFile, NoCfgFile, NoSettingsFile)

CycleStep ==
    \/ check_host_connectivity
    \/ \E k \in 1..NumMountCycles, resolves \in BOOLEAN : WorkerLookup(k, resolves)
    \/ \E k \in 1..NumMountCycles, connected \in BOOLEAN : WorkerConnect(k, connected)
    \/ \E k \in 1..NumMountCycles : update_host_status(k)

NextSched ==
    \/ Start
    \/ \E text \in LifeInputs : AddHost(text, {}, StoreToken)
    \/ CycleStep

SpecSched == InitSched /\ [][NextSched]_vars /\ WF_vars(Start) /\ WF_vars(CycleStep)

(***************************************************************************)
(* SpecLive: the probe cycles of one run on the inventory of an earlier    *)
(* run, with the user removing hosts while the cycles run.  The threads    *)
(* and the callbacks of the event loop are scheduled as in SpecSched; the  *)
(* user is under no obligation to act.  The resolver threads of load_hosts *)
(* write ip_address only and are left out.                                 *)
(***************************************************************************)
InitLive ==
    /\ IdlePure
    /\ InitProg(EarlierRun.list, EarlierRun.cfg, EarlierRun.settings)

NextLive ==
    \/ Start
    \/ CycleStep
    \/ action_remove_host(StoreToken)
    \/ \E row \in 0..MaxHosts : OnCursorChanged(row)

SpecLive == InitLive /\ [][NextLive]_vars /\ WF_vars(Start) /\ WF_vars(CycleStep)

(***************************************************************************)
(* SpecCycle: the role key on the hosts of a small inventory, with adds,   *)
(* removals, the table cursor and restarts (a role is not stored in        *)
(* hosts.txt, so a restart gives every host the role of a new Host).       *)
(***************************************************************************)
CycleInputs == {<<"a">>, <<"b">>, <<"h", "1">>}

InitCycle ==
    /\ IdlePure
    /\ InitProg(NoListFile, NoCfgFile, NoSettingsFile)

NextCycle ==
    \/ Start
    \/ \E text \in CycleInputs : AddHost(text, {}, StoreToken)
    \/ action_toggle_role(StoreToken)
    \/ action_remove_host(StoreToken)
    \/ \E row \in 0..MaxHosts : OnCursorChanged(row)
    \/ on_data_table_row_selected
    \/ action_quit

SpecCycle == InitCycle /\ [][NextCycle]_vars

(***************************************************************************)
(* SpecPure: the two pure functions on every input text.                   *)
(***************************************************************************)
InitPureSpec == InitPure /\ InitProg(NoListFile, NoCfgFile, NoSettingsFile)

ExpandCall ==
    /\ "expand" \notin called
    /\ expanded' = expand_host_pattern(pattern)
    /\ called' = called \cup {"expand"}
    /\ UNCHANGED <<pattern, valid, progVars>>

ValidateCall ==
    /\ "validate" \notin called
    /\ valid' = validate_hostname(pattern)
    /\ called' = called \cup {"validate"}
    /\ UNCHANGED <<pattern, expanded, progVars>>

NextPure == ExpandCall \/ ValidateCall

SpecPure == InitPureSpec /\ [][NextPure]_vars

(***************************************************************************)
(* Claims about expand_host_pattern                                        *)
(***************************************************************************)
NoBracket(t) == ~Contains(t, "[") /\ ~Contains(t, "]")

\* t is p[m-n]s with p and s free of brackets and m, n decimal digits
IsDashRange(t) ==
    /\ Cardinality({i \in 1..Len(t) : t[i] = "["}) = 1
    /\ Cardinality({i \in 1..Len(t) : t[i] = "]"}) = 1
    /\ GroupStarts(t, "-") # {}

PartsOf(t) ==
    LET i == CHOOSE x \in 1..Len(t) : t[x] = "["
        j == CHOOSE x \in 1..Len(t) : t[x] = "]"
        k == CHOOSE x \in i..j : t[x] = "-"
    IN  [p |-> SubSeq(t, 1, i - 1), m |-> SubSeq(t, i + 1, k - 1),
         n |-> SubSeq(t, k + 1, j - 1), s |-> SubSeq(t, j + 1, Len(t))]

\* d is the decimal numeral of k, left-padded with zeros to w characters
IsNumeralOf(d, k, w) ==
    /\ IsDigits(d)
    /\ StrToInt(d) = k
    /\ Len(d) >= w
    /\ (Len(d) > w \/ w = 1) => (d[1] # "0" \/ Len(d) = 1)

\* C10: a dash-range pattern p[m-n]s with m <= n expands to the n-m+1 names
\* p<k>s for k = m..n in increasing order, k padded with zeros to the number of
\* digits of m when m is written with a leading zero and unpadded otherwise; a
\* text with no bracket expands to itself alone.
C10_DashRangeExpansion ==
    "expand" \in called =>
        /\ NoBracket(pattern) => expanded = <<pattern>>
        /\ IsDashRange(pattern) =>
             LET q  == PartsOf(pattern)
                 lo == StrToInt(q.m)
                 hi == StrToInt(q.n)
                 w  == IF q.m[1] = "0" THEN Len(q.m) ELSE 1
             IN  lo <= hi =>
                   /\ Len(expanded) = hi - lo + 1
                   /\ \A x \in 1..Len(expanded) :
                        LET e == expanded[x]
                        IN  /\ Len(e) > Len(q.p) + Len(q.s)
                            /\ SubSeq(e, 1, Len(q.p)) = q.p
                            /\ SubSeq(e, Len(e) - Len(q.s) + 1, Len(e)) = q.s
                            /\ IsNumeralOf(SubSeq(e, Len(q.p) + 1, Len(e) - Len(q.s)),
                                           lo + x - 1, w)

C10_Witness ==
    /\ "expand" \in called
    /\ pattern = <<"h", "o", "s", "t", "[", "0", "1", "-", "0", "3", "]", ".", "c", "o", "m">>
    /\ expanded = << <<"h", "o", "s", "t", "0", "1", ".", "c", "o", "m">>,
                     <<"h", "o", "s", "t", "0", "2", ".", "c", "o", "m">>,
                     <<"h", "o", "s", "t", "0", "3", ".", "c", "o", "m">> >>

\* t is p[m:n]s with p and s free of brackets and m, n decimal digits
IsColonRange(t) ==
    /\ Cardinality({i \in 1..Len(t) : t[i] = "["}) = 1
    /\ Cardinality({i \in 1..Len(t) : t[i] = "]"}) = 1
    /\ GroupStarts(t, ":") # {}

ColonPartsOf(t) ==
    LET i == CHOOSE x \in 1..Len(t) : t[x] = "["
        j == CHOOSE x \in 1..Len(t) : t[x] = "]"
        k == CHOOSE x \in i..j : t[x] = ":"
    IN  [p |-> SubSeq(t, 1, i - 1), m |-> SubSeq(t, i + 1, k - 1),
         n |-> SubSeq(t, k + 1, j - 1), s |-> SubSeq(t, j + 1, Len(t))]

\* C11: a colon-range pattern p[m:n]s with m <= n expands to the n-m+1 names
\* p<k>s for k = m..n in increasing order, and every k is padded with zeros to
\* the number of characters of m, whether or not m starts with a zero.
C11_ColonRangeExpansion ==
    ("expand" \in called /\ IsColonRange(pattern)) =>
        LET q  == ColonPartsOf(pattern)
            lo == StrToInt(q.m)
            hi == StrToInt(q.n)
        IN  lo <= hi =>
              /\ Len(expanded) = hi - lo + 1
              /\ \A x \in 1..Len(expanded) :
                   LET e == expanded[x]
                       d == SubSeq(e, Len(q.p) + 1, Len(e) - Len(q.s))
                   IN  /\ Len(e) > Len(q.p) + Len(q.s)
                       /\ SubSeq(e, 1, Len(q.p)) = q.p
                       /\ SubSeq(e, Len(e) - Len(q.s) + 1, Len(e)) = q.s
                       /\ IsDigits(d)
                       /\ StrToInt(d) = lo + x - 1
                       /\ Len(d) >= Len(q.m)
                       /\ Len(d) > Len(q.m) => d[1] # "0"

C11_Witness ==
    /\ "expand" \in called
    /\ pattern = <<"h", "[", "0", "9", ":", "1", "0", "]", ".", "c">>
    /\ expanded = << <<"h", "0", "9", ".", "c">>, <<"h", "1", "0", ".", "c">> >>

BracketCount(t, c) == Cardinality({i \in 1..Len(t) : t[i] = c})

\* t has brackets that do not pair up, or one bracket pair whose content is
\* not two decimal bounds, or a range whose start is greater than its end
InvalidPattern(t) ==
    \/ BracketCount(t, "[") # BracketCount(t, "]")
    \/ /\ BracketCount(t, "[") = 1
       /\ BracketCount(t, "]") = 1
       /\ GroupStarts(t, "-") = {}
       /\ GroupStarts(t, ":") = {}
    \/ IsDashRange(t) /\ StrToInt(PartsOf(t).m) > StrToInt(PartsOf(t).n)
    \/ IsColonRange(t) /\ StrToInt(ColonPartsOf(t).m) > StrToInt(ColonPartsOf(t).n)

\* C12: expand_host_pattern hands back no hostname for a pattern whose bounds
\* are non-numeric, whose brackets are unbalanced or whose start is greater
\* than its end (the call is to fail instead of returning a list).
C12_InvalidPatternFails ==
    ("expand" \in called /\ InvalidPattern(pattern)) => expanded = <<>>

(***************************************************************************)
(* Claims about validate_hostname                                          *)
(***************************************************************************)
\* four numbers separated by dots
IsDottedQuad(t) ==
    LET parts == Split(t, ".")
    IN  Len(parts) = 4 /\ \A i \in 1..4 : IsDigits(parts[i])

OctetsInRange(t) == \A i \in 1..4 : StrToInt(Split(t, ".")[i]) <= 255

HasEmptyLabel(t) == \E i \in 1..Len(Split(t, ".")) : Split(t, ".")[i] = <<>>

\* labels of letters, digits and hyphens, 1 to 63 characters, no hyphen at
\* either end
IsRfcHostname(t) ==
    /\ t # <<>>
    /\ \A i \in 1..Len(Split(t, ".")) :
         LET l == Split(t, ".")[i]
         IN  /\ Len(l) \in 1..63
             /\ AllIn(l, LabelChar)
             /\ l[1] # "-"
             /\ l[Len(l)] # "-"

\* the text between the brackets at i and j, no bracket in between
BracketContent(t, i, j) ==
    /\ i < j
    /\ t[i] = "["
    /\ t[j] = "]"
    /\ \A x \in (i + 1)..(j - 1) : t[x] \notin {"[", "]"}

HasNonNumericBound(t) ==
    \E i, j \in 1..Len(t) :
        /\ BracketContent(t, i, j)
        /\ GroupAt(t, i, "-") = {}
        /\ GroupAt(t, i, ":") = {}

\* one numeric range, dash or colon, between hostname characters
IsNumericPattern(t) ==
    /\ IsDashRange(t) \/ IsColonRange(t)
    /\ LET q == IF IsDashRange(t) THEN PartsOf(t) ELSE ColonPartsOf(t)
       IN  AllIn(q.p, HostChar) /\ AllIn(q.s, HostChar)

\* C13: validate_hostname answers false for the empty string, for a dotted
\* quad with an octet above 255, for a hostname with an empty label and for a
\* bracket pattern with a non-numeric bound; it answers true for a dotted quad
\* with all octets in 0..255, for an RFC-1123 hostname and for a bracket
\* pattern with numeric bounds around hostname characters.
C13_ValidateTotal ==
    "validate" \in called =>
        /\ pattern = <<>> => ~valid
        /\ IsDottedQuad(pattern) => (valid <=> OctetsInRange(pattern))
        /\ (NoBracket(pattern) /\ HasEmptyLabel(pattern)) => ~valid
        /\ HasNonNumericBound(pattern) => ~valid
        /\ (IsRfcHostname(pattern) /\ ~IsDottedQuad(pattern)) => valid
        /\ IsNumericPattern(pattern) => valid

(***************************************************************************)
(* Claims about the Add button (SpecAdd)                                   *)
(***************************************************************************)
AddOps ==
    {"add_empty", "add_invalid", "add_nothing", "add_ok", "add_all_duplicates",
     "add_partial"}

\* C14: an add attempt on an empty text, or on a text that validate_hostname
\* refuses, leaves the store, the selection, the list file and k0sctl.yaml as
\* they were and leaves the text of the input as it was typed.
C14_RejectedAddChangesNothing ==
    [][(/\ lastOp' \in AddOps
        /\ input_value = <<>> \/ ~validate_hostname(input_value))
       => UNCHANGED <<hosts, selected_index, listFile, cfgFile, input_value>>]_vars

C14_Witness ==
    /\ lastOp = "add_invalid"
    /\ input_value = <<"a", ".", ".", "b">>
    /\ Len(hosts) = 1
    /\ listFile.exists

Occurs(sub, text) ==
    \E i \in 1..(Len(text) - Len(sub) + 1) : SubSeq(text, i, i + Len(sub) - 1) = sub

NamesOf(hs) == [i \in 1..Len(hs) |-> hs[i].name]

InStore(n) == \E i \in 1..Len(hosts) : Lower(hosts[i].name) = Lower(n)

\* C15: an add whose expansion holds only names of the store (letter case
\* ignored) leaves the store and both files unchanged and raises an error
\* whose text reports how many duplicates there were; an add whose expansion
\* is partly in the store appends exactly the other names and raises a
\* warning whose text names every skipped entry.
C15_DuplicateHandling ==
    [][(/\ lastOp' \in AddOps
        /\ input_value # <<>>
        /\ validate_hostname(input_value)
        /\ expand_host_pattern(input_value) # <<>>)
       => LET new    == expand_host_pattern(input_value)
              dups   == SelectSeq(new, InStore)
              fresh  == SelectSeq(new, LAMBDA n : ~InStore(n))
              notice == AddNotice(input_value, hosts)
          IN  /\ fresh = <<>> =>
                    /\ UNCHANGED <<hosts, listFile, cfgFile>>
                    /\ notice.severity = "error"
                    /\ Occurs(IntToStr(Len(dups)), notice.detail)
              /\ (fresh # <<>> /\ dups # <<>>) =>
                    /\ NamesOf(hosts') = NamesOf(hosts) \o fresh
                    /\ notice.severity = "warning"
                    /\ \A i \in 1..Len(dups) : Occurs(dups[i], notice.detail)]_vars

\* C16: a successful add appends the names that were not in the store at the
\* end of the store in expansion order, each as a host that is enabled, has
\* role both, has its name as ip_address and has status unknown; the hosts
\* that were in the store keep their fields and positions.
C16_AddAppendsDefaults ==
    [][lastOp' \in {"add_ok", "add_partial"}
       => LET fresh == SelectSeq(expand_host_pattern(input_value), LAMBDA n : ~InStore(n))
          IN  /\ Len(hosts') = Len(hosts) + Len(fresh)
              /\ \A i \in 1..Len(hosts) : hosts'[i] = hosts[i]
              /\ \A k \in 1..Len(fresh) :
                   LET h == hosts'[Len(hosts) + k]
                   IN  /\ h.name = fresh[k]
                       /\ h.enabled
                       /\ h.role = "both"
                       /\ h.ip_address = h.name
                       /\ h.connection_status = "unknown"]_vars

\* the steps taken by a thread: the prober, the resolver of load_hosts, and
\* the hand-off of a probe result, which only copies what a thread found
ThreadOps == {"thread", "resolver", "update_status", "update_status_late"}

\* C27: the handler of an event does no DNS lookup and no connect: a step of
\* the event loop that is not the hand-off of a thread's result leaves no host
\* with a resolved address that the host did not have before the step.
C27_NoLookupOnEventLoop ==
    [][lastOp' \notin ThreadOps
       => \A i \in 1..Len(hosts') :
            hosts'[i].ip_address # hosts'[i].name
            => \E j \in 1..Len(hosts) :
                 /\ hosts[j].id = hosts'[i].id
                 /\ hosts[j].ip_address = hosts'[i].ip_address]_vars

(***************************************************************************)
(* Claims about the probe of added hosts (SpecSched)                       *)
(***************************************************************************)
HasStatus(name, status) ==
    \E i \in 1..Len(hosts) : hosts[i].name = name /\ hosts[i].connection_status = status

\* C17: after a successful add a probe is scheduled for the added hosts and
\* only for them: every added host eventually leaves the status unknown, and
\* the add leaves the status of the hosts already in the store as it was.
C17_AddedHostsProbed ==
    /\ \A text \in LifeInputs :
         [](HasStatus(text, "unknown") => <>(~HasStatus(text, "unknown")))
    /\ [][lastOp' \in {"add_ok", "add_partial"}
          => \A i \in 1..Len(hosts) :
                hosts'[i].connection_status = hosts[i].connection_status]_vars

(***************************************************************************)
(* Claims about the role key (SpecCycle)                                   *)
(***************************************************************************)
Roles == {"worker", "controller", "both"}

CycleOf == [r \in Roles |->
              IF r = "worker" THEN "controller"
              ELSE IF r = "controller" THEN "both" ELSE "worker"]

\* C18: the role key on a valid selection takes the role of the selected host
\* from worker to controller, from controller to both and from both to worker,
\* so three presses give the role back; it changes no other host and no other
\* field; the role of every host is worker, controller or both in every state.
C18_RoleCycle ==
    [][/\ \A i \in 1..Len(hosts') : hosts'[i].role \in Roles
       /\ (/\ lastOp' \in {"role", "role_nothing"}
           /\ selected_index \in 0..(Len(hosts) - 1))
          => LET r == hosts[selected_index + 1].role
             IN  /\ hosts' = [hosts EXCEPT ![selected_index + 1].role = CycleOf[r]]
                 /\ CycleOf[CycleOf[CycleOf[r]]] = r]_vars

C18_Witness ==
    /\ lastOp = "role"
    /\ Len(hosts) = 2
    /\ hosts[1].role = "controller"
    /\ hosts[2].role = "worker"

(***************************************************************************)
(* Claims about the store and its files (SpecStore)                        *)
(***************************************************************************)
MutationOps == {"add_ok", "add_partial", "remove", "toggle", "role"}

EnabledHosts == SelectSeq(hosts, LAMBDA h : h.enabled)

\* C1: after every completed store mutation (add, remove, toggle-enabled,
\* cycle-role) the plain list file lists exactly the enabled hosts of the store
\* in store order, and the structured config file lists exactly those same hosts
\* with their current roles, the empty store after a remove included.
C1_FilesFollowStore ==
    lastOp \in MutationOps =>
        /\ listFile.exists
        /\ Len(listFile.entries) = Len(EnabledHosts)
        /\ \A i \in 1..Len(EnabledHosts) :
              /\ listFile.entries[i].text = EnabledHosts[i].name
              /\ listFile.entries[i].role = EnabledHosts[i].role
        /\ cfgFile.exists
        /\ Len(cfgFile.targets) = Len(EnabledHosts)
        /\ \A i \in 1..Len(EnabledHosts) :
              /\ cfgFile.targets[i].address = EnabledHosts[i].ip_address
              /\ cfgFile.targets[i].role = RoleText(EnabledHosts[i].role)

\* C2: in every reachable state of the store no two hosts have names that are
\* equal case-insensitively, whether enabled or disabled.
C2_UniqueNames ==
    \A i, j \in 1..Len(hosts) : i # j => Lower(hosts[i].name) # Lower(hosts[j].name)

(***************************************************************************)
(* Claims about the prober (SpecProbe)                                     *)
(***************************************************************************)
ProbeOps == {"check", "thread", "resolver", "update_status", "update_status_late"}

\* C3: applying a probe result whose index is greater than or equal to the
\* current store length leaves the store unchanged, and no probe cycle, thread
\* step or result merge changes the number of hosts in the store.
C3_LateResultDropped ==
    [][/\ lastOp' = "update_status_late" => hosts' = hosts
       /\ lastOp' \in ProbeOps => Len(hosts') = Len(hosts)]_vars

\* a late result was dropped while the store still held a host whose status
\* differs from the one the result carries
C3_Witness ==
    /\ lastOp = "update_status_late"
    /\ Len(hosts) = 1
    /\ hosts[1].connection_status = "reachable"
    /\ \E k \in 1..Len(workers) : workers[k].idx = 2 /\ workers[k].stage = "next"

\* C4: the background threads never write to a field of a Host that is in the
\* store: a step of a probe thread or of a resolver thread leaves the store as
\* it is.
C4_ThreadsNeverWrite ==
    [][lastOp' \in {"thread", "resolver"} => hosts' = hosts]_vars

Results == {"reachable", "unreachable", "dns_failed"}

AllowedChange(old, new) ==
    \/ new = old
    \/ old = "unknown" /\ new = "checking"
    \/ old = "checking" /\ new \in Results
    \/ old \in Results /\ new = "checking"

\* C5: the connection_status of a host changes only from unknown to checking,
\* from checking to reachable, unreachable or dns_failed, or from one of those
\* three back to checking.
C5_StatusTransitions ==
    [][\A i \in 1..Len(hosts), j \in 1..Len(hosts') :
          hosts[i].id = hosts'[j].id =>
              AllowedChange(hosts[i].connection_status, hosts'[j].connection_status)]_vars

\* C25: the step of the event loop that starts a probe cycle sets every host
\* of the store to checking, and the thread it starts has at that point done
\* no DNS lookup and no connect for any host: it stands before hosts[0].
C25_CheckingBeforeProbe ==
    [][lastOp' = "check"
       => IF hosts = <<>> THEN hosts' = hosts /\ workers' = workers
          ELSE /\ Len(hosts') = Len(hosts)
               /\ \A i \in 1..Len(hosts') : hosts'[i].connection_status = "checking"
               /\ Len(workers') = Len(workers) + 1
               /\ SubSeq(workers', 1, Len(workers)) = workers
               /\ LET w == workers'[Len(workers')]
                  IN  w.idx = 0 /\ w.ref = 0 /\ w.stage = "next"]_vars

\* the second cycle has started while the thread of the first had probed one
\* host: both hosts are back at checking
C25_Witness ==
    /\ lastOp = "check"
    /\ Len(hosts) = 2
    /\ \A i \in 1..2 : hosts[i].connection_status = "checking"
    /\ Len(workers) = 2
    /\ workers[1].idx = 1
    /\ workers[2].idx = 0

\* the thread at position k of workers took this step
ProbeStepBy(k) ==
    /\ Len(workers') = Len(workers)
    /\ workers'[k] # workers[k]
    /\ \A j \in 1..Len(workers) : j # k => workers'[j] = workers[j]

\* the identity of the host that the step of thread k is about
ProbedBy(k) == IF workers[k].stage = "next" THEN workers'[k].ref ELSE workers[k].ref

\* C26: a probe that fails to resolve the name leaves its host dns_failed with
\* ip_address equal to the name; one that resolves stores the resolved address
\* and then leaves the host reachable or unreachable as the connect to port 22
\* went; the result of a host is handed off right after that host is probed;
\* and no step of the probe of one host changes a field of another host.
C26_ProbeOutcome ==
    [][lastOp' \in {"thread", "update_status", "update_status_late"}
       => \A k \in 1..Len(workers) :
            ProbeStepBy(k)
            => LET id == ProbedBy(k)
                   p  == PosOf(hosts', id)
               IN  /\ Len(hosts') = Len(hosts)
                   /\ \A i \in 1..Len(hosts) : hosts[i].id # id => hosts'[i] = hosts[i]
                   /\ (workers[k].stage = "next" /\ p > 0)
                        => \/ /\ workers'[k].stage = "wait"
                              /\ hosts'[p].connection_status = "dns_failed"
                              /\ hosts'[p].ip_address = hosts'[p].name
                           \/ /\ workers'[k].stage = "connect"
                              /\ hosts'[p].ip_address = DnsAnswer(hosts'[p].name)
                   /\ (workers[k].stage = "connect" /\ p > 0)
                        => /\ workers'[k].stage = "wait"
                           /\ hosts'[p].connection_status \in {"reachable", "unreachable"}
                   /\ workers[k].stage = "wait"
                        => workers'[k].stage = "next" /\ workers'[k].idx = workers[k].idx + 1]_vars

(***************************************************************************)
(* Claims about inventories/remote.py (SpecList)                           *)
(***************************************************************************)
\* the number of enabled hosts among the first i hosts of hs
EnabledUpTo(hs, i) == Cardinality({j \in 1..i : hs[j].enabled})

\* the names of the enabled hosts of hs, in the order of hs
EnabledNames(hs) ==
    [k \in 1..EnabledUpTo(hs, Len(hs)) |->
        hs[CHOOSE i \in 1..Len(hs) : hs[i].enabled /\ EnabledUpTo(hs, i) = k].name]

\* C29: after a mutation of the store the list file holds one entry for each
\* enabled host, in store order, and none for a disabled host; a toggle that
\* disables a host takes its entry out of the file and leaves the others in
\* order, and a toggle that enables it again puts the entry back between the
\* entries of the enabled hosts before it and after it in the store.
C29_ListFileEntries ==
    [][lastOp' \in MutationOps
       => LET n   == EnabledUpTo(hosts', Len(hosts'))
              old == EnabledNames(hosts)
              new == [k \in 1..Len(listFile'.entries) |-> listFile'.entries[k].text]
          IN  /\ listFile'.exists
              /\ Len(new) = n
              /\ \A i \in 1..Len(hosts') :
                   hosts'[i].enabled => new[EnabledUpTo(hosts', i)] = hosts'[i].name
              /\ lastOp' = "toggle"
                   => LET i == selected_index + 1
                      IN  IF hosts[i].enabled
                          THEN LET r == EnabledUpTo(hosts, i)
                               IN  new = SubSeq(old, 1, r - 1) \o SubSeq(old, r + 1, Len(old))
                          ELSE LET r == EnabledUpTo(hosts', i)
                               IN  /\ new[r] = hosts[i].name
                                   /\ SubSeq(new, 1, r - 1) = SubSeq(old, 1, r - 1)
                                   /\ SubSeq(new, r + 1, Len(new)) = SubSeq(old, r, Len(old))]_vars

\* the first host of a store of two was disabled and has just been enabled
\* again: its entry stands before that of the second host
C29_Witness ==
    /\ lastOp = "toggle" /\ selected_index = 0
    /\ Len(hosts) = 2 /\ hosts[1].enabled /\ hosts[2].enabled
    /\ Len(listFile.entries) = 2
    /\ listFile.entries[1].text = hosts[1].name
    /\ listFile.entries[2].text = hosts[2].name

(***************************************************************************)
(* Claims about a failed write (SpecFail)                                  *)
(***************************************************************************)
SaveErrorOps == {"save_error_notified", "save_error_raised", "save_error_printed"}

\* C30: a mutation of the store whose rewrite of one of the two files fails
\* ends in an error the user sees: either the handler shows an error
\* notification and the session goes on, or the exception ends the
\* application with the error and nothing is deployed; the session never
\* goes on after a failed write without an error having been shown.
C30_FailedWriteSurfaced ==
    [][lastOp' \in SaveErrorOps
       => /\ lastOp' # "save_error_printed"
          /\ phase' = "running" => lastOp' = "save_error_notified"
          /\ lastOp' = "save_error_raised"
               => phase' = "off" /\ loopEnd' = "error" /\ ~deployed']_vars

\* the write of the list file failed in an add: the error was notified, the
\* session goes on, and the store holds a host that the list file lacks
C30_Witness ==
    /\ lastOp = "save_error_notified" /\ phase = "running"
    /\ Len(hosts) = 2 /\ hosts[2].enabled
    /\ Len(listFile.entries) = 1

(***************************************************************************)
(* Claims about the targets of k0sctl.yaml (SpecTargets)                   *)
(***************************************************************************)
\* the steps in which generate_k0sctl_config is called
GenerateOps ==
    {"add_ok", "add_partial", "remove", "toggle", "role", "generate", "generate_again"}

\* the position in hs of the k-th enabled host
NthEnabled(hs, k) ==
    CHOOSE i \in 1..Len(hs) :
        /\ hs[i].enabled
        /\ Cardinality({j \in 1..i : hs[j].enabled}) = k

WrittenRole == [r \in Roles |->
                  IF r = "both" THEN "controller+worker"
                  ELSE IF r = "worker" THEN "worker" ELSE "controller"]

\* C28: a call of generate on a store with hosts writes one target for each
\* enabled host and none for a disabled one, in store order; the target has
\* the ip_address of the host (the resolved address when a lookup gave one,
\* otherwise the name) as address, the username of that moment, port 22, and
\* the role written as worker, controller, or controller+worker for both; the
\* file carries the virtual_ip of that moment.
C28_TargetsWritten ==
    [][(lastOp' \in GenerateOps /\ hosts' # <<>>)
       => LET n == Cardinality({i \in 1..Len(hosts') : hosts'[i].enabled})
          IN  /\ cfgFile'.exists
              /\ Len(cfgFile'.targets) = n
              /\ \A k \in 1..n :
                   LET h == hosts'[NthEnabled(hosts', k)]
                       t == cfgFile'.targets[k]
                   IN  /\ t.address = h.ip_address
                       /\ h.ip_address \in {h.name, DnsAnswer(h.name)}
                       /\ t.user = username'
                       /\ t.port = 22
                       /\ t.role = WrittenRole[h.role]
              /\ cfgFile'.vip = virtual_ip']_vars

\* the file holds one target, that of the second host, which resolved and is a
\* worker, under an edited username and virtual IP; the first host is disabled
C28_Witness ==
    /\ lastOp \in GenerateOps
    /\ Len(hosts) = 2 /\ ~hosts[1].enabled /\ hosts[2].enabled
    /\ hosts[2].role = "worker" /\ hosts[2].ip_address # hosts[2].name
    /\ username \in UsernameInputs /\ virtual_ip \in VirtualIPInputs
    /\ Len(cfgFile.targets) = 1
    /\ cfgFile.targets[1].address = hosts[2].ip_address
    /\ cfgFile.targets[1].role = "worker"
    /\ cfgFile.targets[1].user = username
    /\ cfgFile.vip = virtual_ip

(***************************************************************************)
(* Claims about the life of the program (SpecLife)                         *)
(***************************************************************************)
\* C6: the confirmed flag is false while the interaction loop runs and is true
\* only after one of the two confirm actions ended the loop; when the loop ended
\* by quit, interrupt or a UI error the flag is false and the deployment command
\* has not been run; the deployment command runs only with the flag set.
C6_ConfirmOnly ==
    /\ phase = "running" => ~user_confirmed_continue /\ ~deployed
    /\ user_confirmed_continue => loopEnd = "confirm"
    /\ loopEnd \in {"quit", "interrupt", "error"} => ~user_confirmed_continue /\ ~deployed
    /\ deployed => user_confirmed_continue

\* the loop ended by quit while a k0sctl.yaml was there to deploy
C6_Witness ==
    /\ phase = "off"
    /\ loopEnd = "quit"
    /\ cfgFile.exists
    /\ cfgFile.targets # <<>>
    /\ ~deployed

\* C7: once k0sctl.yaml holds an auth token every later regeneration writes the
\* same token; a token is generated only when neither the file nor the session
\* holds one.
C7_TokenStable ==
    [][/\ (cfgFile.exists /\ "authPass" \in cfgFile.lines) =>
              (cfgFile'.exists /\ "authPass" \in cfgFile'.lines /\ cfgFile'.auth = cfgFile.auth)
       /\ (cfgFile' # cfgFile /\ ~(cfgFile.exists /\ "authPass" \in cfgFile.lines)) =>
              IF auth_pass # "" THEN cfgFile'.auth = auth_pass
              ELSE cfgFile'.auth \in Tokens]_vars

\* a run that started on the settings an earlier run saved has regenerated the
\* file, with an edited virtual IP, around a generated token
C7_Witness ==
    /\ phase = "running"
    /\ lastOp \in MutationOps
    /\ "username" \in mainConfig.keys /\ mainConfig.username \in UsernameInputs
    /\ cfgFile.exists
    /\ cfgFile.auth \in Tokens
    /\ cfgFile.vip \in VirtualIPInputs
    /\ auth_pass = cfgFile.auth

(***************************************************************************)
(* Claim about generate_k0sctl_config (SpecGen)                            *)
(***************************************************************************)
\* C8: a call of generate that directly follows another call of generate, with
\* the store and the settings unchanged in between, leaves the content of
\* k0sctl.yaml, its auth token included, as the first call left it.
C8_GenerateIdempotent ==
    [][lastOp' = "generate_again" => cfgFile' = cfgFile /\ auth_pass' = auth_pass]_vars

\* generate ran twice in a row on a store with hosts and wrote a generated token
C8_Witness ==
    /\ lastOp = "generate_again"
    /\ hosts # <<>>
    /\ cfgFile.exists
    /\ cfgFile.auth \in Tokens
    /\ cfgFile.vip = virtual_ip

(***************************************************************************)
(* Claim about the selection (SpecSel)                                     *)
(***************************************************************************)
\* C9: selected_index is None or an index into the store, and after a host was
\* removed it is None.
C9_SelectionValid ==
    /\ selected_index = None \/ (0 <= selected_index /\ selected_index < Len(hosts))
    /\ lastOp = "remove" => selected_index = None

\* the last host of a store of two was removed
C9_Witness ==
    /\ lastOp = "remove"
    /\ Len(hosts) = 1
    /\ selected_index = None

C20_DownInTable ==
    [][/\ (focus = "host-table" /\ lastOp' \in {"move_down", "key_down"})
          => IF selected_index = Len(hosts) - 1 \/ selected_index = None
             THEN focus' = "host-input"
             ELSE /\ focus' = "host-table"
                  /\ lastOp' = "move_down" => selected_index' = selected_index + 1
       /\ (lastOp' \in {"move_down", "key_down"} /\ Len(hosts) > 1)
          => ~(selected_index = Len(hosts) - 1 /\ selected_index' = 0)
       /\ (lastOp' \in {"move_up", "key_up"} /\ Len(hosts) > 1)
          => ~(selected_index = 0 /\ selected_index' = Len(hosts) - 1)]_vars

(***************************************************************************)
(* Claims about the keys outside the table (SpecKeys)                      *)
(***************************************************************************)
\* C21: with the focus in the username input the down key moves the focus to
\* the table with row 0 selected when the store has a host, and leaves the
\* focus in the username input when the store is empty.
C21_DownInUsername ==
    [][(focus = "username-input" /\ PressKey("down"))
       => IF Len(hosts) > 0
          THEN focus' = "host-table" /\ selected_index' = 0
          ELSE focus' = "username-input"]_vars

\* C22: with the focus in the host input, down moves the focus to the Add
\* button, and so does right when the text cursor is at the end of the text;
\* up moves the focus to the table with the last row selected; Enter runs the
\* add handler and leaves the focus in the host input whatever the add did.
C22_KeysInHostInput ==
    [][focus = "host-input"
       => /\ PressKey("down") => focus' = "add-btn"
          /\ action_move_right(TRUE) => focus' = "add-btn"
          /\ PressKey("up")
               => /\ focus' = "host-table"
                  /\ Len(hosts) > 0 => selected_index' = Len(hosts) - 1
          /\ HostInput_on_key_enter({}, StoreToken)
               => /\ focus' = "host-input"
                  /\ lastOp' \in AddOps]_vars

\* Enter in the host input added the two hosts of a range
C22_Witness ==
    /\ lastOp = "add_ok"
    /\ focus = "host-input"
    /\ Len(hosts) = 2

SessionEndOps == {"continue_button", "continue_key", "quit", "interrupt"}

\* the settings file holds value under key
Persisted(sf, key, value) == sf.exists /\ key \in sf.keys /\ sf[key] = value

\* C31: an edit of the username or of the virtual IP is written to the
\* settings file in the step of the edit; the end of the session by confirm,
\* quit or interrupt leaves both persisted values as the last edit left them;
\* and the next start takes the persisted username and the persisted virtual
\* IP in place of the defaults.
C31_SettingsPersist ==
    [][/\ (phase = "running" /\ phase' = "running" /\ virtual_ip' # virtual_ip)
            => Persisted(settingsFile', "virtual_ip", virtual_ip')
       /\ (phase = "running" /\ phase' = "running" /\ app_host_username' # app_host_username)
            => Persisted(settingsFile', "username", app_host_username')
       /\ lastOp' \in SessionEndOps
            => /\ Persisted(settingsFile, "username", app_host_username)
                    => Persisted(settingsFile', "username", app_host_username)
               /\ Persisted(settingsFile, "virtual_ip", virtual_ip)
                    => Persisted(settingsFile', "virtual_ip", virtual_ip)
       /\ lastOp' = "start"
            => /\ (settingsFile.exists /\ "username" \in settingsFile.keys)
                    => app_host_username' = settingsFile.username
               /\ (settingsFile.exists /\ "virtual_ip" \in settingsFile.keys)
                    => virtual_ip' = settingsFile.virtual_ip]_vars

(***************************************************************************)
(* Claims about the load of the list file (SpecLoad)                       *)
(***************************************************************************)
\* the positions of the character c in text
PositionsOf(text, c) == {k \in 1..Len(text) : text[k] = c}

\* the part of an entry after its first @, or the entry when it has none
HostPart(text) ==
    IF PositionsOf(text, "@") = {} THEN text
    ELSE SubSeq(text, SetMin(PositionsOf(text, "@")) + 1, Len(text))

\* the part of an entry before its first @
UserPart(text) == SubSeq(text, 1, SetMin(PositionsOf(text, "@")) - 1)

\* C32: the start of the program on a list file gives the store one host for
\* each entry of the file, in file order, named by the part of the entry after
\* the @ (by the entry when it has no @); the username of the session is the
\* one it had before the load when that was not empty, and otherwise the user
\* part of the first user@host entry of the file.
C32_LoadListFile ==
    [][(lastOp' = "start" /\ listFile.exists)
       => LET entries == listFile.entries
              at      == {i \in 1..Len(entries) : PositionsOf(entries[i].text, "@") # {}}
          IN  /\ Len(hosts') = Len(entries)
              /\ \A i \in 1..Len(entries) : hosts'[i].name = HostPart(entries[i].text)
              /\ app_host_username' # <<>> => username' = app_host_username'
              /\ (app_host_username' = <<>> /\ at # {})
                   => username' = UserPart(entries[SetMin(at)].text)
              /\ (app_host_username' = <<>> /\ at = {}) => username' = <<>>]_vars

\* a start with an empty username on a file whose first user@host entry names
\* user u and whose second names user v
C32_Witness ==
    /\ lastOp = "start" /\ app_host_username = <<>>
    /\ Len(listFile.entries) = 2 /\ Len(hosts) = 2
    /\ \A i \in 1..2 : PositionsOf(listFile.entries[i].text, "@") # {}
    /\ UserPart(listFile.entries[1].text) = <<"u">>
    /\ UserPart(listFile.entries[2].text) = <<"v">>
    /\ username = <<"u">>
    /\ hosts[1].name = <<"h", "1">> /\ hosts[2].name = <<"h", "2">>

(***************************************************************************)
(* Claims about probe results and removals (SpecProbe)                     *)
(***************************************************************************)
\* C33: the event loop applies a probe result to the host that was probed and
\* to no other: a host whose connection_status changes in the step that
\* applies the result of a thread is the host that thread probed, also after
\* a removal has moved the hosts behind the removed one to lower indices.
C33_ResultToProbedHost ==
    [][lastOp' \in {"update_status", "update_status_late"}
       => \A k \in 1..Len(workers) :
            (ProbeStepBy(k) /\ workers[k].stage = "wait")
            => \A i \in 1..Len(hosts) :
                 hosts'[i].connection_status # hosts[i].connection_status
                 => hosts[i].id = workers[k].ref]_vars

(***************************************************************************)
(* Claims about the end of a probe cycle (SpecLive)                        *)
(***************************************************************************)
\* C34: under fair scheduling of the threads and of the event loop a host that
\* a probe cycle has set to checking is eventually removed from the store or
\* reachable, unreachable or dns_failed, also when hosts are removed while the
\* cycle runs: no host stays in checking forever.
C34_CheckingEnds ==
    \A name \in {<<"a">>, <<"b">>} :
        [](HasStatus(name, "checking") => <>(~HasStatus(name, "checking")))

(***************************************************************************)
(* Claims about concurrent probe cycles (SpecProbe)                        *)
(***************************************************************************)
\* the thread w has hosts of the store left to probe or a result to hand off
StillProbing(w) == w.stage # "next" \/ w.idx < Len(hosts)

\* C35: at most one probe cycle is in flight: the step that starts the thread
\* of a cycle is taken only when no thread of an earlier cycle is still
\* probing hosts, also at the start on an inventory of an earlier run.
C35_OneCycleInFlight ==
    [][(lastOp' = "check" /\ Len(workers') > Len(workers))
       => \A k \in 1..Len(workers) : ~StillProbing(workers[k])]_vars

(***************************************************************************)
(* Claims about k0sctl.yaml at the confirmation (SpecLife)                 *)
(***************************************************************************)
ConfirmOps == {"continue_button", "continue_key"}

\* C36: when the user confirms on a store with hosts, k0sctl.yaml is what
\* generate would write from the store and the settings of that moment: it
\* has the virtual IP and the username last entered, and one target for each
\* enabled host, in store order, whose address is the ip_address the host
\* has then.
C36_ConfigCurrentAtConfirm ==
    [][(lastOp' \in ConfirmOps /\ hosts # <<>>)
       => LET n == EnabledUpTo(hosts, Len(hosts))
          IN  /\ cfgFile.exists
              /\ cfgFile.vip = virtual_ip
              /\ Len(cfgFile.targets) = n
              /\ \A k \in 1..n :
                   LET h == hosts[NthEnabled(hosts, k)]
                   IN  /\ cfgFile.targets[k].address = h.ip_address
                       /\ cfgFile.targets[k].user = username
                       /\ cfgFile.targets[k].role = WrittenRole[h.role]]_vars

(***************************************************************************)
(* Claims about validate_hostname and expand_host_pattern together         *)
(* (SpecPure)                                                              *)
(***************************************************************************)
\* C37: a text that validate_hostname accepts expands to at least one name,
\* and each name of the expansion, which is what the add puts into the store,
\* holds no bracket and is itself accepted by validate_hostname as a plain
\* hostname or dotted quad; for one bracket group, for several, and for
\* prefixes and suffixes of dots and hyphens.
C37_ValidExpandsToHostnames ==
    (called = {"expand", "validate"} /\ valid)
    => /\ expanded # <<>>
       /\ \A i \in 1..Len(expanded) :
            NoBracket(expanded[i]) /\ validate_hostname(expanded[i])

(***************************************************************************)
(* Claims about the two arrow-key handlers (SpecNav)                       *)
(***************************************************************************)
FocusRegions == {FocusOrder[i] : i \in 1..Len(FocusOrder)}

\* the action that SparxApp.BINDINGS binds to the key
BoundAction(key) == IF key = "up" THEN action_move_up ELSE action_move_down

\* C38: in every state and for each arrow key that HostManager.on_key
\* handles, the action bound to the key in SparxApp.BINDINGS, taken from the
\* same state, gives the same focus and the same selected row as on_key does.
C38_HandlersAgree ==
    phase = "running"
    => \A key \in Keys :
         OnKeyStops(key)
         => \A f \in FocusRegions, r \in None..MaxHosts :
              (ENABLED (HostManager_on_key(key) /\ focus' = f /\ selected_index' = r))
              <=> (ENABLED (BoundAction(key) /\ focus' = f /\ selected_index' = r))

(***************************************************************************)
(* Claims about the store across a restart (SpecStore)                     *)
(***************************************************************************)
\* C39: what load_hosts makes of the list file that a mutation has just
\* saved is the store as it was saved: the same hosts in the same order,
\* each with the role and the enabled flag it had.
C39_SaveLoadRoundTrip ==
    [][lastOp' \in MutationOps
       => LET back == LoadedHosts(listFile'.entries)
          IN  /\ Len(back) = Len(hosts')
              /\ \A i \in 1..Len(back) :
                   /\ back[i].name = hosts'[i].name
                   /\ back[i].role = hosts'[i].role
                   /\ back[i].enabled = hosts'[i].enabled]_vars

(***************************************************************************)
(* Claims about the key bindings r, e, t (SpecTargets)                     *)
(***************************************************************************)
ValidSelection == selected_index # None /\ 0 <= selected_index /\ selected_index < Len(hosts)

FlipEnabled(hs, i) == [hs EXCEPT ![i] = [@ EXCEPT !.enabled = ~hs[i].enabled]]

\* C40: remove, toggle-enabled and cycle-role act only on the host at a
\* valid selected index.  Remove deletes that host and keeps the others,
\* with their fields, in their order; toggle-enabled changes nothing but
\* that host's enabled flag and keeps the selection, so that a second
\* toggle gives the store back; cycle-role changes nothing but that host's
\* role; and with selected_index None or out of range each of the three
\* leaves the store, the list file, k0sctl.yaml and sparx.json as they were.
C40_ActOnSelectedOnly ==
    [][LET i == selected_index + 1
       IN  /\ lastOp' = "remove"
              => /\ ValidSelection
                 /\ Len(hosts') = Len(hosts) - 1
                 /\ \A k \in 1..Len(hosts') :
                      hosts'[k] = hosts[IF k < i THEN k ELSE k + 1]
           /\ lastOp' = "toggle"
              => /\ ValidSelection
                 /\ Len(hosts') = Len(hosts)
                 /\ \A k \in 1..Len(hosts) :
                      hosts'[k] = IF k = i
                                  THEN [hosts[k] EXCEPT !.enabled = ~hosts[k].enabled]
                                  ELSE hosts[k]
                 /\ selected_index' = selected_index
                 /\ FlipEnabled(hosts', selected_index' + 1) = hosts
           /\ lastOp' = "role"
              => /\ ValidSelection
                 /\ Len(hosts') = Len(hosts)
                 /\ \A k \in 1..Len(hosts) :
                      hosts'[k] = IF k = i
                                  THEN [hosts[k] EXCEPT !.role = hosts'[k].role]
                                  ELSE hosts[k]
                 /\ hosts'[i].role \in Roles \ {hosts[i].role}
           /\ lastOp' \in {"remove_nothing", "toggle_nothing", "role_nothing"}
              => /\ ~ValidSelection
                 /\ UNCHANGED <<hosts, listFile, cfgFile, settingsFile>>]_vars

\* the remove key has deleted one host of several
C40_Witness == lastOp = "remove" /\ hosts # <<>>

====
